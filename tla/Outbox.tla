------------------------------- MODULE Outbox -------------------------------
(***************************************************************************)
(* What one destination promises about the .cdb files handed to it: a file *)
(* is copied into the box, and it leaves the box either because its rows   *)
(* were inserted, or into the directory of files that could not be sent,   *)
(* or into the directory of files that could not be read.  Insertion is at *)
(* least once: nothing here stops a second Insert of the same file.        *)
(***************************************************************************)
EXTENDS Naturals

CONSTANTS
    Files,          \* the names a .cdb file can have
    KeepFailed,     \* TRUE: the directory "failed" is configured
    KeepBad         \* TRUE: the directory "badfiles" is configured

VARIABLES
    box,            \* box[f]: is f absent, being written, or complete
    sent,           \* files whose current copy has been inserted
    parked,         \* content of the directory "failed"
    rejected        \* content of the directory "badfiles"

vars == <<box, sent, parked, rejected>>

Stage == {"none", "partial", "full"}

TypeOK ==
    /\ box \in [Files -> Stage]
    /\ sent \subseteq Files
    /\ parked \subseteq Files
    /\ rejected \subseteq Files

Init ==
    /\ box = [f \in Files |-> "none"]
    /\ sent = {}
    /\ parked = {}
    /\ rejected = {}

\* A new file begins under the name f: nothing has been sent of it.
BeginCopy(f) ==
    /\ box[f] = "none"
    /\ box' = [box EXCEPT ![f] = "partial"]
    /\ sent' = sent \ {f}
    /\ UNCHANGED <<parked, rejected>>

EndCopy(f) ==
    /\ box[f] = "partial"
    /\ box' = [box EXCEPT ![f] = "full"]
    /\ UNCHANGED <<sent, parked, rejected>>

Insert(f) ==
    /\ box[f] = "full"
    /\ sent' = sent \union {f}
    /\ UNCHANGED <<box, parked, rejected>>

Remove(f) ==
    /\ box[f] = "full"
    /\ f \in sent
    /\ box' = [box EXCEPT ![f] = "none"]
    /\ UNCHANGED <<sent, parked, rejected>>

Park(f) ==
    /\ box[f] = "full"
    /\ box' = [box EXCEPT ![f] = "none"]
    /\ parked' = IF KeepFailed THEN parked \union {f} ELSE parked
    /\ UNCHANGED <<sent, rejected>>

Reject(f) ==
    /\ box[f] # "none"
    /\ box' = [box EXCEPT ![f] = "none"]
    /\ rejected' = IF KeepBad THEN rejected \union {f} ELSE rejected
    /\ UNCHANGED <<sent, parked>>

Next ==
    \E f \in Files :
        \/ BeginCopy(f) \/ EndCopy(f) \/ Insert(f)
        \/ Remove(f) \/ Park(f) \/ Reject(f)

Spec == Init /\ [][Next]_vars

(***************************************************************************)
(* A complete file never disappears: when both directories are configured, *)
(* a file that leaves the box was inserted or lies in one of them          *)
(* (Click2DB::lifeProc and every call of Node::moveFile it makes).         *)
(***************************************************************************)
KeptOrSent ==
    [][ KeepFailed /\ KeepBad =>
          \A f \in Files :
             box[f] = "full" /\ box'[f] = "none"
                => f \in sent' \union parked' \union rejected' ]_vars

=============================================================================
