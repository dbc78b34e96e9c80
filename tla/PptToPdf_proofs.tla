-------------------------- MODULE PptToPdf_proofs --------------------------
(* No presentation is lost when names do not collide: for any number of    *)
(* files, restarts and failures of LibreOffice.                            *)
EXTENDS PptToPdf, TLAPS

(* What the disk and options hold; while LibreOffice runs and while its    *)
(* result is looked at, the current file is not one already removed, and   *)
(* after a return code 0 that means something its PDF is whole.            *)
DiskInv ==
    /\ target \in [Files -> Pdfs] /\ pdf \in [Pdfs -> Files \cup {Absent, Empty, Other}]
    /\ truthful \in BOOLEAN /\ present \subseteq Files /\ removed \subseteq Files \ present
CurInv ==
    place \in {"running", "verify"} =>
        /\ cur \in Files \ removed
        /\ place = "verify" /\ truthful => pdf[target[cur]] = cur
NothingLostInv == DiskInv /\ CurInv /\ NothingLost

(* At the start nothing has been deleted.                                  *)
LEMMA InitNothingLost == PptInit => NothingLostInv
  BY DEF PptInit, NothingLostInv, DiskInv, CurInv, NothingLost

(* Whatever is written under the current file's PDF leaves the PDFs of the *)
(* removed files alone.                                                    *)
LEMMA WriteKeepsOthers ==
  ASSUME DiskInv, NothingLost, cur \in Files \ removed,
         NEW content \in Files \cup {Absent, Empty, Other},
         pdf' = pdf \/ Leaves(content),
         UNCHANGED <<target, truthful, removed>>
  PROVE  NothingLost' /\ pdf' \in [Pdfs -> Files \cup {Absent, Empty, Other}]
<1>1. pdf' \in [Pdfs -> Files \cup {Absent, Empty, Other}]
  BY DEF DiskInv, Leaves
<1>2. ASSUME DistinctTargets, NEW f \in removed
      PROVE  pdf'[target[f]] = pdf[target[f]]
  <2>1. f \in Files /\ f # cur /\ target[f] \in Pdfs /\ target[cur] \in Pdfs
    BY DEF DiskInv
  <2>2. target[f] # target[cur]
    BY <1>2, <2>1 DEF DistinctTargets
  <2> QED  BY <2>1, <2>2 DEF DiskInv, Leaves
<1> QED  BY <1>1, <1>2 DEF NothingLost, DistinctTargets

(* Every step keeps a copy of every presentation.                          *)
LEMMA NextNothingLost == NothingLostInv /\ [PptNext]_pptVars => NothingLostInv'
<1> SUFFICES ASSUME NothingLostInv, [PptNext]_pptVars PROVE NothingLostInv'
  OBVIOUS
<1> USE DEF NothingLostInv
<1>2. ASSUME UNCHANGED <<options, disk>>, place' \notin {"running", "verify"}
      PROVE  NothingLostInv'
  BY <1>2 DEF options, disk, DiskInv, CurInv, NothingLost, DistinctTargets
<1>3. CASE Collect \/ NextFile \/ Summary \/ MkdirRaises
  BY <1>2, <1>3 DEF Collect, NextFile, Summary, MkdirRaises, Goto
<1>4. CASE NotAFile \/ NotVerified \/ VerifyRaises
  BY <1>2, <1>4 DEF NotAFile, NotVerified, VerifyRaises, Result, Goto
<1>5. CASE StartLibreOffice
  BY <1>5 DEF StartLibreOffice, Goto, options, disk, DiskInv, CurInv, NothingLost,
              DistinctTargets
<1>6. CASE Returns0
  <2>1. PICK content \in Files \cup {Absent, Empty, Other} :
           /\ pdf' = pdf \/ Leaves(content)
           /\ truthful => content = cur /\ Leaves(cur)
    BY <1>6 DEF Returns0, Untouched, CurInv, DiskInv
  <2>2. /\ place = "running" /\ place' = "verify"
        /\ UNCHANGED <<target, truthful, present, removed, cur>>
    BY <1>6 DEF Returns0, Goto, options
  <2>3. NothingLost' /\ pdf' \in [Pdfs -> Files \cup {Absent, Empty, Other}]
    BY <2>1, <2>2, WriteKeepsOthers DEF CurInv
  <2>4. CurInv'
    <3>1. cur \in Files \ removed /\ target[cur] \in Pdfs
      BY <2>2 DEF CurInv, DiskInv
    <3> QED  BY <2>1, <2>2, <3>1 DEF CurInv, Leaves, DiskInv
  <2> QED  BY <2>2, <2>3, <2>4 DEF DiskInv
<1>7. CASE ReturnsNonzero \/ TimedOut
  <2>1. PICK content \in Files \cup {Absent, Empty, Other} : pdf' = pdf \/ Leaves(content)
    BY <1>7 DEF ReturnsNonzero, TimedOut, Fails, Untouched, CurInv, DiskInv
  <2>2. /\ place = "running" /\ place' = "next"
        /\ UNCHANGED <<target, truthful, present, removed, cur>>
    BY <1>7 DEF ReturnsNonzero, TimedOut, Fails, Result, Goto, options
  <2>3. NothingLost' /\ pdf' \in [Pdfs -> Files \cup {Absent, Empty, Other}]
    BY <2>1, <2>2, WriteKeepsOthers DEF CurInv
  <2> QED  BY <2>2, <2>3 DEF DiskInv, CurInv
<1>8. CASE Verified
  <2>1. /\ place = "verify" /\ place' = "next" /\ pdf[target[cur]] \notin {Absent, Empty}
        /\ UNCHANGED <<target, truthful, pdf>>
        /\ removed' \subseteq removed \cup {cur}
        /\ DiskInv'
    BY <1>8 DEF Verified, Result, Goto, NonEmpty, Exists, options, DiskInv, CurInv
  <2> QED  BY <2>1 DEF CurInv, NothingLost, DistinctTargets
<1>9. CASE Restart
  <2>1. /\ place' = "collect"
        /\ UNCHANGED <<target, truthful, present, removed, cur>>
    BY <1>9 DEF Restart, Goto, options
  <2>2. CASE place = "running"
    <3>1. PICK content \in Files \cup {Absent, Empty, Other} : pdf' = pdf \/ Leaves(content)
      BY <1>9, <2>2 DEF Restart, Untouched
    <3>2. NothingLost' /\ pdf' \in [Pdfs -> Files \cup {Absent, Empty, Other}]
      BY <2>1, <2>2, <3>1, WriteKeepsOthers DEF CurInv
    <3> QED  BY <2>1, <3>2 DEF DiskInv, CurInv
  <2>3. CASE place # "running"
    BY <1>2, <1>9, <2>1, <2>3 DEF Restart, Untouched, options, disk
  <2> QED  BY <2>2, <2>3
<1>10. ASSUME NEW f \in Files, TakeAway(f) PROVE NothingLostInv'
  BY <1>10 DEF TakeAway, options, DiskInv, CurInv, NothingLost, DistinctTargets
<1>11. CASE UNCHANGED pptVars
  BY <1>11 DEF pptVars, options, disk, DiskInv, CurInv, NothingLost, DistinctTargets
<1> QED
  BY <1>3, <1>4, <1>5, <1>6, <1>7, <1>8, <1>9, <1>10, <1>11 DEF PptNext, Step

(* A presentation is removed only beside a PDF with some bytes, beside its *)
(* own whole PDF if return code 0 means it was written, unless two         *)
(* presentations share one PDF: convert_single_file's checks, at every     *)
(* interruption and for any number of restarts.                            *)
THEOREM NothingIsLost == PptSpec => []NothingLost
<1>1. NothingLostInv => NothingLost
  BY DEF NothingLostInv
<1> QED  BY <1>1, InitNothingLost, NextNothingLost, PTL DEF PptSpec
=============================================================================
