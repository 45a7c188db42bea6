------------------------------ MODULE ImageStore ------------------------------
(***************************************************************************)
(* What the image cache promises to setup and upgrade: at any moment it     *)
(* holds one published build of the running binary's release tag, whole and *)
(* signed, or it counts as empty.  A build is <<tag, revision>>; revisions  *)
(* of a tag are published in order.                                         *)
(***************************************************************************)
EXTENDS Naturals

CONSTANTS Tags, None

VARIABLES
  entry,   \* the build the cache holds, or None
  latest,  \* the last revision published under each tag
  tag      \* the running binary's tag

Init ==
  /\ entry = None
  /\ latest = [t \in Tags |-> 1]
  /\ tag \in Tags

\* A published build of the current tag enters an empty cache.
Fill ==
  /\ entry = None
  /\ \E r \in 1..latest[tag] : entry' = <<tag, r>>
  /\ UNCHANGED <<latest, tag>>

Drop ==
  /\ entry' = None
  /\ UNCHANGED <<latest, tag>>

Publish ==
  /\ \E t \in Tags : latest' = [latest EXCEPT ![t] = @ + 1]
  /\ UNCHANGED <<entry, tag>>

\* A newer binary: what is cached is for another tag.
NewBinary ==
  /\ tag' \in Tags
  /\ tag' > tag
  /\ entry' = None
  /\ UNCHANGED latest

Next == Fill \/ Drop \/ Publish \/ NewBinary

Spec == Init /\ [][Next]_<<entry, latest, tag>>
=============================================================================
