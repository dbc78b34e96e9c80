------------------------------ MODULE PptToPdf ------------------------------
(***************************************************************************)
(* The converter Some_Python_Code/ppt_to_pdf.py: it collects presentations *)
(* and has LibreOffice write each one's PDF to a directory, under the stem *)
(* of the presentation's name; with remove_original it then deletes the    *)
(* presentation.  The user may interrupt it and start it again.            *)
(***************************************************************************)
EXTENDS Integers, FiniteSets, Sequences

CONSTANTS
    Files,        \* presentations the given paths lead to
    Pdfs,         \* names a PDF can be written to
    Order,        \* collect_presentation_files' sorted order: a sequence of Files
    MaxRestarts,  \* a bound on interruptions of the modelled user
    Absent, Empty, Other       \* no PDF, one without bytes, one cut short or of another file

ASSUME OrderAssumption ==
    /\ IsFiniteSet(Files) /\ MaxRestarts \in Nat
    /\ Order \in Seq(Files) /\ \A f \in Files : \E i \in 1..Len(Order) : Order[i] = f
    /\ \A i, j \in 1..Len(Order) : Order[i] = Order[j] => i = j
    /\ {Absent, Empty, Other} \cap Files = {} /\ Cardinality({Absent, Empty, Other}) = 3

VARIABLES
    target,            \* target_pdf of each file, by its stem and the output directory
    remove_original,   \* the option
    truthful,          \* whether LibreOffice returns 0 only when it has written the PDF
    dirs_usable,       \* whether every output directory exists or can be made
    present, removed,  \* presentations that exist; that the converter has deleted
    pdf,               \* what is under each PDF name: a file's content, or one of the above
    files, found, succeeded, failed,  \* convert_all: files still to come, and its counters
    cur, place,        \* convert_single_file: its file, and where it is; "raised"
                       \* when an exception has left convert_all
    restarts

options   == <<target, remove_original, truthful, dirs_usable>>
disk      == <<present, removed, pdf>>
counters  == <<found, succeeded, failed>>
pptVars   == <<options, disk, files, counters, cur, place, restarts>>

PptInit ==
    /\ target \in [Files -> Pdfs] /\ remove_original \in BOOLEAN /\ truthful \in BOOLEAN
    /\ dirs_usable \in BOOLEAN /\ present = Files /\ removed = {}
    /\ pdf \in [Pdfs -> {Absent, Other}]
    /\ files = <<>> /\ found = 0 /\ succeeded = 0 /\ failed = 0
    /\ cur \in {Order[1]} /\ place = "collect" /\ restarts = 0

Goto(to) == place' = to
Result(ok) ==
    /\ succeeded' = succeeded + (IF ok THEN 1 ELSE 0)
    /\ failed' = failed + (IF ok THEN 0 ELSE 1)
    /\ UNCHANGED found
    /\ Goto("next")

-----------------------------------------------------------------------------
(* convert_all *)

Collect ==
    /\ place = "collect"
    /\ files' = SelectSeq(Order, LAMBDA f : f \in present)
    /\ found' = Len(files') /\ succeeded' = 0 /\ failed' = 0
    /\ Goto("next")
    /\ UNCHANGED <<options, disk, cur, restarts>>

NextFile ==
    /\ place = "next" /\ files # <<>>
    /\ cur' = Head(files) /\ files' = Tail(files)
    /\ Goto("convert")
    /\ UNCHANGED <<options, disk, counters, restarts>>

Summary ==
    /\ place = "next" /\ files = <<>>
    /\ Goto("done")
    /\ UNCHANGED <<options, disk, files, counters, cur, restarts>>

-----------------------------------------------------------------------------
(* convert_single_file *)

(* Somebody else has removed the file since it was collected. *)
NotAFile ==
    /\ place = "convert" /\ cur \notin present
    /\ Result(FALSE)
    /\ UNCHANGED <<options, disk, files, cur, restarts>>

(* mkdir stands before the try: what it raises ends the batch, with the    *)
(* other files untried.                                                    *)
MkdirRaises ==
    /\ place = "convert" /\ cur \in present /\ ~dirs_usable
    /\ Goto("raised")
    /\ UNCHANGED <<options, disk, files, counters, cur, restarts>>

StartLibreOffice ==
    /\ place = "convert" /\ cur \in present
    /\ Goto("running")
    /\ UNCHANGED <<options, disk, files, counters, cur, restarts>>

(* The subprocess ends: what it has left under the PDF's name, and how.    *)
Leaves(content) == pdf' = [pdf EXCEPT ![target[cur]] = content]
Untouched == pdf' = pdf

Returns0 ==
    /\ place = "running"
    /\ Leaves(cur) \/ (~truthful /\ (Untouched \/ Leaves(Empty)))
    /\ Goto("verify")
    /\ UNCHANGED <<options, present, removed, files, counters, cur, restarts>>

Fails(next) ==
    /\ place = "running"
    /\ Untouched \/ Leaves(Empty) \/ Leaves(Other) \/ Leaves(cur)
    /\ next
    /\ UNCHANGED <<options, present, removed, files, cur, restarts>>

ReturnsNonzero_bug == Fails(Goto("verify") /\ UNCHANGED counters)
ReturnsNonzero == Fails(Result(FALSE))

(* TimeoutExpired after 180 seconds: the subprocess is killed. *)
TimedOut_bug == place = "running" /\ UNCHANGED pptVars
TimedOut == Fails(Result(FALSE))

Exists == pdf[target[cur]] # Absent
NonEmpty == Exists /\ pdf[target[cur]] # Empty

NotVerified ==
    /\ place = "verify" /\ ~NonEmpty
    /\ Result(FALSE)
    /\ UNCHANGED <<options, disk, files, cur, restarts>>

(* exists or stat raises, for want of the PDF too: caught by the try. *)
VerifyRaises ==
    /\ place = "verify" /\ Result(FALSE)
    /\ UNCHANGED <<options, disk, files, cur, restarts>>

(* unlink may fail, for want of the file too: a warning. *)
Verified ==
    /\ place = "verify" /\ NonEmpty
    /\ \/ UNCHANGED <<present, removed>>
       \/ /\ remove_original /\ cur \in present
          /\ present' = present \ {cur} /\ removed' = removed \cup {cur}
    /\ Result(TRUE)
    /\ UNCHANGED <<options, pdf, files, cur, restarts>>

-----------------------------------------------------------------------------
(* The user and the rest of the system *)

(* KeyboardInterrupt at any place, and the same command again. *)
Restart ==
    /\ place # "collect" /\ restarts < MaxRestarts
    /\ restarts' = restarts + 1
    /\ IF place = "running" THEN Untouched \/ Leaves(Empty) \/ Leaves(Other) ELSE Untouched
    /\ Goto("collect")
    /\ UNCHANGED <<options, present, removed, files, counters, cur>>

(* Somebody else, or a link to it that was converted first, takes a file away. *)
TakeAway(f) ==
    /\ f \in present
    /\ present' = present \ {f}
    /\ UNCHANGED <<options, removed, pdf, files, counters, cur, place, restarts>>

Step ==
    \/ Collect \/ NextFile \/ Summary \/ NotAFile \/ MkdirRaises \/ StartLibreOffice
    \/ TimedOut \/ NotVerified \/ Verified
PptNext ==
    \/ Step \/ Returns0 \/ ReturnsNonzero \/ VerifyRaises \/ Restart
    \/ \E f \in Files : TakeAway(f)
PptSpec == PptInit /\ [][PptNext]_pptVars

(* LibreOffice may hang: nothing but the time-out makes it end. *)
FairPptSpec == PptSpec /\ WF_pptVars(Step)

-----------------------------------------------------------------------------
DistinctTargets == \A f, g \in Files : target[f] = target[g] => f = g

(* With names that do not collide no interruption, failure or time-out, at *)
(* any point, loses a presentation: the converter has removed it only      *)
(* beside a PDF with some bytes, and if LibreOffice's return code 0 means  *)
(* that it has written the PDF, beside its own whole PDF.                  *)
NothingLost ==
    DistinctTargets => \A f \in removed :
        /\ pdf[target[f]] \notin {Absent, Empty}
        /\ truthful => pdf[target[f]] = f

(* The converter comes to its summary although LibreOffice may hang, or,   *)
(* if an output directory cannot be made, to an exception.  It has then    *)
(* counted each file it found once, but for the one that raised and those  *)
(* after it, and as a success each one it removed.                         *)
SummaryCounts ==
    place \in {"done", "raised"} /\ restarts = 0 =>
        /\ succeeded + failed + Len(files) + (IF place = "raised" THEN 1 ELSE 0) = found
        /\ place = "done" => files = <<>>
        /\ Cardinality(removed) <= succeeded
ReachesSummary ==
    <>(place = "done" \/ (place = "raised" /\ ~dirs_usable)) /\ []SummaryCounts

(* "Verifies generated PDF exists and has non-zero size before deleting    *)
(* original"; the README: "after confirming the PDF was successfully       *)
(* created and verified".  Two names with one stem share one PDF.          *)
RemovedHasItsPdf == truthful => \A f \in removed : pdf[target[f]] = f
=============================================================================
