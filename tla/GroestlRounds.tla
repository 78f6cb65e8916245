--------------------------- MODULE GroestlRounds ---------------------------
(***************************************************************************)
(* F512 and OutputTransformation of src/hash/monero/groestl.c: ten rounds  *)
(* of Q and ten of P on buffers that change roles, each round written as   *)
(* eight COLUMN macros with the words they read spelled out.  Bytes are    *)
(* symbolic: a column remembers which round has written it; what is        *)
(* checked is which bytes a column reads and that all of them are fresh.   *)
(***************************************************************************)
EXTENDS Integers, Sequences

VARIABLES
    operation,
    call,     \* number of the RND512P / RND512Q call, from 1
    col,      \* number of the COLUMN in it, from 0; the constants come first
    written   \* buffer -> column -> <<permutation, rounds done on it>>

vars == <<operation, call, col, written>>

Columns == 0..7
Buffers == {"z", "y", "Ptmp", "Qtmp"}

\* The calls of F512: which permutation, from where, to where, which round.
\* OutputTransformation calls its buffer temp.
Ping(p, n, from, to) ==
    [perm |-> p, round |-> n,
     x |-> IF n = 0 THEN from ELSE IF n % 2 = 1 THEN "y" ELSE "z",
     y |-> IF n = 9 THEN to ELSE IF n % 2 = 0 THEN "y" ELSE "z"]

\* Mutated form of F512: P is computed in place of the buffer Q left in y.
F512_fromY ==
    [i \in 1..20 |-> IF i <= 10 THEN Ping("Q", i - 1, "z", "Qtmp")
                                ELSE Ping("P", i - 11, "y", "Ptmp")]

F512 ==
    [i \in 1..20 |-> IF i <= 10 THEN Ping("Q", i - 1, "z", "Qtmp")
                                ELSE Ping("P", i - 11, "Ptmp", "Ptmp")]

OutputTransformation ==
    [i \in 1..10 |-> Ping("P", i - 1, "Ptmp", "Ptmp")]

Calls == IF operation = "F512" THEN F512 ELSE OutputTransformation

\* The words c0..c7 of the eight COLUMNs of RND512P and RND512Q.
RND512P == << <<0,2,4,6,9,11,13,15>>,  <<2,4,6,8,11,13,15,1>>,
              <<4,6,8,10,13,15,1,3>>,  <<6,8,10,12,15,1,3,5>>,
              <<8,10,12,14,1,3,5,7>>,  <<10,12,14,0,3,5,7,9>>,
              <<12,14,0,2,5,7,9,11>>,  <<14,0,2,4,7,9,11,13>> >>

RND512Q == << <<2,6,10,14,1,5,9,13>>,  <<4,8,12,0,3,7,11,15>>,
              <<6,10,14,2,5,9,13,1>>,  <<8,12,0,4,7,11,15,3>>,
              <<10,14,2,6,9,13,1,5>>,  <<12,0,4,8,11,15,3,7>>,
              <<14,2,6,10,13,1,5,9>>,  <<0,4,8,12,15,3,7,11>> >>

\* COLUMN reads byte i % 4 of word ci for row i: x[4*ci + i%4].
COLUMN(p, c) == [row \in 0..7 |-> [word |-> (IF p = "P" THEN RND512P ELSE RND512Q)[c + 1][row + 1],
                                   byte |-> row % 4]]

Fresh(v) == [c \in Columns |-> v]

Init ==
    /\ operation \in {"F512", "OutputTransformation"}
    /\ call = 1 /\ col = 0
    /\ written = [b \in Buffers |->
                    IF b = "Ptmp" THEN Fresh(<<"P", 0>>)
                    ELSE IF b = "z" /\ operation = "F512" THEN Fresh(<<"Q", 0>>)
                    ELSE Fresh(<<"unset", 0>>)]

\* One COLUMN: a column of y is computed from eight bytes of x.
Column ==
    /\ call <= Len(Calls)
    /\ LET k == Calls[call]
       IN  written' = [written EXCEPT ![k.y][col] = <<k.perm, k.round + 1>>]
    /\ col' = (col + 1) % 8
    /\ call' = IF col = 7 THEN call + 1 ELSE call
    /\ UNCHANGED operation

Next == Column

Spec == Init /\ [][Next]_vars

-----------------------------------------------------------------------------
\* shift_Values of the source, by which the reference moves the rows.
shift_Values(p) == IF p = "P" THEN <<0,1,2,3,4,5,6,7>> ELSE <<1,3,5,7,0,2,4,6>>

\* The operands of every COLUMN are those of the shifted rows: row i of column
\* c comes from column c + shift_Values[i], whose upper four bytes are the even
\* and whose lower four bytes are the odd word.
ShiftsRows ==
    call <= Len(Calls) =>
        LET p == Calls[call].perm
        IN  \A row \in 0..7 :
                COLUMN(p, col)[row] =
                    [word |-> 2 * ((col + shift_Values(p)[row + 1]) % 8) + (row \div 4),
                     byte |-> row % 4]

\* No COLUMN reads a column that its own call has overwritten or that an
\* earlier round has left: the two buffers never coincide and every call
\* continues where the one before it stopped.  At the end ten rounds have been
\* applied to each of the inputs.
RoundsChain ==
    IF call <= Len(Calls)
    THEN LET k == Calls[call]
         IN  \A row \in 0..7 :
                written[k.x][COLUMN(k.perm, col)[row].word \div 2] = <<k.perm, k.round>>
    ELSE /\ written["Ptmp"] = Fresh(<<"P", 10>>)
         /\ operation = "F512" => written["Qtmp"] = Fresh(<<"Q", 10>>)
=============================================================================
