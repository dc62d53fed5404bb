---------------------------- MODULE FileRegisters ----------------------------
(***************************************************************************)
(* What a program that reads the feature store is promised while others    *)
(* write it, whatever reads.  A file that nobody writes during the call is *)
(* returned whole, as it is.  Of one that is written meanwhile the call    *)
(* has a whole version that could be read at some moment since it began,   *)
(* as from a regular register, or a blend of which nothing is promised; of *)
(* two files these may be different moments.  A file that could not be     *)
(* read at any of them is not passed over.  A caller that is not strict    *)
(* may miss files.                                                         *)
(*                                                                         *)
(* A version is a set of rows, the empty one where there is no file.       *)
(***************************************************************************)

CONSTANT Files

VARIABLES
  held,    \* for each file its version, as a set: {} where it cannot be read
  asked,   \* the files the call asks for
  strict,  \* a file that the call cannot list ends it
  since,   \* for each file the versions it had since the call began
  answer   \* what the latest call returned, as a set: {} where nothing yet

vars == <<held, asked, strict, since, answer>>

Init ==
  /\ held = [f \in Files |-> {{}}]
  /\ asked \in SUBSET Files
  /\ strict \in BOOLEAN
  /\ since = held
  /\ answer = {}

(* One file is replaced, or becomes unreadable until it is.                 *)
Replace(f) ==
  /\ UNCHANGED <<asked, strict, answer>>
  /\ held' = [held EXCEPT ![f] = held'[f]]
  /\ \A v, w \in held'[f] : v = w
  /\ since' = [since EXCEPT ![f] = @ \cup held'[f]]

(* The caller may keep what it has until the call returns.                  *)
Call ==
  /\ UNCHANGED <<held, asked, strict>>
  /\ since' = held
  /\ answer' \in {answer, {}}

(* Of each file its one version, or {} for a blend.                         *)
Return ==
  /\ UNCHANGED <<held, asked, strict, since>>
  /\ \E a \in answer' :
       /\ answer' = {a}
       /\ DOMAIN a \subseteq asked
       /\ strict => DOMAIN a = asked
       /\ \A f \in DOMAIN a :
            \/ \E v \in since[f] : a[f] = {v}
            \/ a[f] = {} /\ since[f] # held[f]

Next == (\E f \in Files : Replace(f)) \/ Call \/ Return

Spec == Init /\ [][Next]_vars
==============================================================================
