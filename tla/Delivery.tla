------------------------------ MODULE Delivery ------------------------------
(***************************************************************************)
(* What a receiver promises to a sender and to the readers of its output   *)
(* directory: a name holds nothing or one whole version, replaced in one   *)
(* step, and COMPLETE is said of a version in place, or of the one version *)
(* that was found in place for the answer now given.                       *)
(***************************************************************************)
CONSTANTS
  Tid, Sig, Name,
  FileName,     \* FileName[s]: the name version s is delivered under
  NoSig         \* no version

VARIABLES
  visible,      \* name -> the version in place, or NoSig
  found,        \* the version found in place whose answer is not yet given, or NoSig
  answer        \* id -> the last answer given: a version and a state

vars == <<visible, found, answer>>

Init ==
  /\ visible = [n \in Name |-> NoSig]
  /\ found = NoSig
  /\ answer = [t \in Tid |-> [sig |-> NoSig, state |-> "INCOMPLETE"]]

Deliver(s) ==
  /\ visible' = [visible EXCEPT ![FileName[s]] = s]
  /\ UNCHANGED <<found, answer>>

Find(s) ==
  /\ visible[FileName[s]] = s
  /\ found' = s
  /\ UNCHANGED <<visible, answer>>

Forget ==
  /\ found' = NoSig
  /\ UNCHANGED <<visible, answer>>

Respond(t, s, state) ==
  /\ \/ state # "COMPLETE" /\ found' = found
     \/ visible[FileName[s]] = s /\ found' = found
     \/ found = s /\ found' = NoSig
  /\ answer' = [answer EXCEPT ![t] = [sig |-> s, state |-> state]]
  /\ UNCHANGED visible

Next ==
  \/ \E s \in Sig : Deliver(s) \/ Find(s)
  \/ Forget
  \/ \E t \in Tid, s \in Sig, state \in {"INCOMPLETE", "COMPLETE", "HASH_MISMATCH"} :
       Respond(t, s, state)

Spec == Init /\ [][Next]_vars
=============================================================================
