---------------------------- MODULE ArtifactStore ----------------------------
(***************************************************************************)
(* Create-once publication of artifact files (harness/artifacts.py).  A    *)
(* writer fills a temporary file of its own, links it to the final path,   *)
(* and removes the temporary; a path that is already there is compared and *)
(* never replaced.  The final path is named by the digest of the content,  *)
(* so a content stands for its path.                                       *)
(*                                                                         *)
(* Writers are the threads of a Harness that freeze results and provider   *)
(* files, and the operator who publishes evidence and recovered results.   *)
(***************************************************************************)
EXTENDS Naturals

CONSTANTS Writers, Contents, NoContent

ASSUME StoreAssumption == NoContent \notin Contents

VARIABLES
    disk,     \* what a reader finds at each final path
    temp,     \* what each writer's temporary file holds
    target,   \* the content each writer publishes
    step,     \* where each writer is in write_immutable
    receipts  \* per writer, the receipts write_immutable has returned

storeVars == <<disk, temp, target, step, receipts>>

FileStates == {"absent", "torn", "whole"}
Steps      == {"idle", "writing", "linking", "removing", "refused", "lost"}

StoreInit ==
    /\ disk     = [c \in Contents |-> "absent"]
    /\ temp     = [w \in Writers |-> "absent"]
    /\ target   = [w \in Writers |-> NoContent]
    /\ step     = [w \in Writers |-> "idle"]
    /\ receipts = [w \in Writers |-> {}]

\* Bug: the final path is made before its bytes are written.
OpenInPlace(w, c) ==
    /\ step[w] = "idle"
    /\ target' = [target EXCEPT ![w] = c]
    /\ temp' = [temp EXCEPT ![w] = "torn"]
    /\ disk' = [disk EXCEPT ![c] = IF @ = "absent" THEN "torn" ELSE @]
    /\ step' = [step EXCEPT ![w] = "writing"]
    /\ UNCHANGED receipts

\* O_CREAT | O_EXCL under a random name: no other writer has this file.
OpenTemporary(w, c) ==
    /\ step[w] = "idle"
    /\ target' = [target EXCEPT ![w] = c]
    /\ temp' = [temp EXCEPT ![w] = "torn"]
    /\ step' = [step EXCEPT ![w] = "writing"]
    /\ UNCHANGED <<disk, receipts>>

\* write, flush, fsync.
FillTemporary(w) ==
    /\ step[w] = "writing"
    /\ temp' = [temp EXCEPT ![w] = "whole"]
    /\ step' = [step EXCEPT ![w] = "linking"]
    /\ UNCHANGED <<disk, target, receipts>>

\* os.link fails on an existing path, whose bytes must then be the same.
Publish(w) ==
    /\ step[w] = "linking"
    /\ disk[target[w]] # "torn"
    /\ disk' = [disk EXCEPT ![target[w]] = IF @ = "absent" THEN temp[w] ELSE @]
    /\ step' = [step EXCEPT ![w] = "removing"]
    /\ UNCHANGED <<temp, target, receipts>>

\* The temporary goes whether or not the publication succeeded.
RemoveTemporary(w) ==
    /\ step[w] = "removing"
    /\ temp' = [temp EXCEPT ![w] = "absent"]
    /\ receipts' = [receipts EXCEPT ![w] = @ \cup {target[w]}]
    /\ target' = [target EXCEPT ![w] = NoContent]
    /\ step' = [step EXCEPT ![w] = "idle"]
    /\ UNCHANGED disk

\* A write fails, the path exists with other bytes, or the copied provider file
\* changed under the copy (write_immutable_file): no receipt.
Discard(w) ==
    /\ step[w] \in {"writing", "linking"}
    /\ temp' = [temp EXCEPT ![w] = "absent"]
    /\ step' = [step EXCEPT ![w] = "refused"]
    /\ UNCHANGED <<disk, target, receipts>>

\* The writer's process is lost at any moment; its temporary stays.
LoseWriter(w) ==
    /\ step[w] # "lost"
    /\ step' = [step EXCEPT ![w] = "lost"]
    /\ UNCHANGED <<disk, temp, target, receipts>>

Advance(w) == FillTemporary(w) \/ Publish(w) \/ RemoveTemporary(w)

StoreNext == \E w \in Writers : \/ \E c \in Contents : OpenTemporary(w, c)
                                \/ Advance(w) \/ Discard(w) \/ LoseWriter(w)

StoreSpec == StoreInit /\ [][StoreNext]_storeVars

-----------------------------------------------------------------------------
(* Properties.                                                             *)

StoreTypeOK ==
    /\ disk \in [Contents -> FileStates]
    /\ temp \in [Writers -> FileStates]
    /\ target \in [Writers -> Contents \cup {NoContent}]
    /\ step \in [Writers -> Steps]
    /\ receipts \in [Writers -> SUBSET Contents]

\* What makes publication atomic: a temporary is whole before it is linked.
StoreInv ==
    /\ StoreTypeOK
    /\ \A w \in Writers :
         /\ step[w] \in {"writing", "linking", "removing"} => target[w] \in Contents
         /\ step[w] = "linking" => temp[w] = "whole"
         /\ step[w] = "removing" => disk[target[w]] = "whole"

\* A reader finds a final path absent or complete, and every receipt a writer
\* was given verifies, whatever writers race for one path or are lost on the
\* way (ArtifactStore.write_immutable, verify).
ReceiptsVerify ==
    /\ \A c \in Contents : disk[c] # "torn"
    /\ \A w \in Writers : \A c \in receipts[w] : disk[c] = "whole"
=============================================================================
