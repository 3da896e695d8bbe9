---------------------------- MODULE MCChatQueue ----------------------------
(* Small instances of ChatQueue for TLC. *)
EXTENDS ChatQueue

CONSTANTS m1, m2, m3, m4, u1, u2, x, y, r, p

Cap(user, process) ==
    [user |-> user, project |-> 4, running |-> process, channel |-> 2,
     atOnce |-> 2, perSend |-> 4]

InProject == [s \in {x, y, r} |-> p]

\* two messages of each of two chats, of two authors
QueueChats == [m \in Messages |-> IF m \in {m3, m4} THEN y ELSE x]
OneChat == [m \in Messages |-> x]
QueueAuthors == [m \in Messages |-> IF m \in {m1, m3} THEN u1 ELSE u2]
QueueCaps == {Cap(1, 4), Cap(2, 4)}
OneCap == {Cap(1, 4)}

\* m1 and m2 may not start together
BadTogether == {{m1, m2}}

\* for the expiry: m1 fails once its trial passed, the summon at once
BadLate == {{m1}}
BadSummon == {{m2}}
=============================================================================
