------------------------------ MODULE ByteFile ------------------------------
(***************************************************************************)
(* A readable file whose bytes are all there from the start: what DbFile   *)
(* of rust/src/file.rs is, a std::io::Cursor over a Vec<u8>, and what a    *)
(* reader of any other file of DatabaseFs may take it for.                 *)
(***************************************************************************)
EXTENDS Integers, Sequences

CONSTANTS
    MaxPosition,   \* u64::MAX
    None

VARIABLES
    content,    \* the bytes
    fallible,   \* producing the bytes may fail; never so for a DbFile
    failed,     \* such a call has been made
    position,
    reply       \* what the last call returned

End(n) == IF position + n < Len(content) THEN position + n ELSE Len(content)

Data(n) == SubSeq(content, position + 1, End(n))

\* read into a buffer of n bytes.
Read(n) ==
    /\ reply' = [data |-> Data(n)]
    /\ position' = position + Len(Data(n))

\* seek to an offset from the start, the position or the end.
Seek(from, offset) ==
    IF from + offset \in 0 .. MaxPosition
    THEN /\ position' = from + offset
         /\ reply' = [at |-> from + offset]
    ELSE /\ UNCHANGED position
         /\ reply' = [error |-> "invalid input"]

\* A call that needs bytes that cannot be produced.
Fail ==
    /\ fallible
    /\ failed' = TRUE
    /\ reply' = [error |-> "invalid data"]
    /\ UNCHANGED position

\* Nothing is promised of the calls after it.
Unspecified == failed /\ failed'

Init == failed = FALSE /\ position = 0 /\ reply = None

Succeed ==
    /\ \/ \E n \in 0 .. MaxPosition : Read(n)
       \/ \E from \in {0, position, Len(content)} :
             \E offset \in -MaxPosition .. MaxPosition : Seek(from, offset)
    /\ UNCHANGED failed

Next ==
    /\ Succeed \/ Fail \/ Unspecified
    /\ UNCHANGED <<content, fallible>>

Spec == Init /\ [][Next]_<<content, fallible, failed, position, reply>>

=============================================================================
