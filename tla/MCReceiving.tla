---------------------------- MODULE MCReceiving ----------------------------
(* Instances of Receiving for TLC. *)
EXTENDS Receiving

CONSTANTS l1, r1, r2, r3

MCForms == {[l \in {l1} |-> [quantity |-> n, factor |-> 1]] : n \in 1 .. 2}
             \cup {[l \in {l1} |-> [quantity |-> 1, factor |-> 2]]}
MCDocs == {[l \in {l1} |-> [quantity |-> 2, received |-> 1, factor |-> 1]]}
MCReceived == {[l \in {l1} |-> n] : n \in 1 .. 2}
MCPosts == {[type |-> "OPENING", quantity |-> 1, ref |-> NoRef],
            [type |-> "ISSUE", quantity |-> -1, ref |-> NoRef]}
MCFiles == {<<[type |-> "OPENING", quantity |-> 1, ref |-> r1]>>,
            <<[type |-> "RECEIPT", quantity |-> 1, ref |-> r2],
              [type |-> "ISSUE", quantity |-> -2, ref |-> r3]>>}
=============================================================================
