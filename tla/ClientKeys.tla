----------------------------- MODULE ClientKeys -----------------------------
(***************************************************************************)
(* The client's side of the keyboard (client/main.go): the bytes the user's*)
(* terminal sends for a key are put together to keystrokes, one message    *)
(* each.  Whether a byte still belongs to an escape is decided by a timeout*)
(* of 30 ms, which may also pass while the byte is on its way.             *)
(*                                                                         *)
(* A byte is a token: "esc", "[", "cr", "del", "tab", "etx" (Ctrl-C), "nak"*)
(* (Ctrl-U), "stx" (Ctrl-B), a character, or one of the bytes that a       *)
(* character beyond ASCII is made of.  A message is JSON, which has no way *)
(* to say such a byte alone: it goes as U+FFFD.  Messages without a        *)
(* keystroke (a changed window) are left out.                              *)
(***************************************************************************)
EXTENDS Integers, Sequences, SequencesExt

CONSTANTS
    Presses,        \* the byte sequences of the keys of the terminal
    Wides,          \* and those of the characters beyond ASCII
    MaxPresses,     \* bound: keys pressed in a behaviour
    MaxAhead        \* bound: keystrokes on the wire when a key is pressed

Replacement == "U+FFFD"

Leads  == {Head(c) : c \in Wides}               \* the first bytes
Inner  == UNION {Range(Tail(c)) : c \in Wides}  \* and those behind them
Beyond == Leads \cup Inner

ASSUME PressesAssumption ==
    /\ Presses \subseteq Seq(STRING) \ {<<>>}
    /\ Wides \subseteq Seq(STRING) \ {<<>>}
    /\ Leads \cap Inner = {} /\ Replacement \notin Beyond

Arrows == {"A", "B", "C", "D"}          \* the last byte of an arrow key
Uppers == Arrows \cup {"H"}             \* capital letters
Enders == Uppers \cup {"~"}             \* bytes that may end a longer sequence

VARIABLES
    stdin,          \* bytes of the last key that have not been read
    keystroke,      \* bytes put together so far
    wire,           \* keystrokes sent to the engine, oldest first
    presses,        \* keys pressed so far
    due,            \* bytes typed that no reader of the engine has got
    dropped         \* a byte after an Alt combination has been dropped

clientVars == <<stdin, keystroke, wire, presses, due, dropped>>

\* The n-th byte of k belongs to a character that k has all of.
Whole(k, n) ==
    \E c \in Wides, m \in 0 .. n - 1 :
        /\ n <= m + Len(c) /\ m + Len(c) <= Len(k)
        /\ SubSeq(k, m + 1, m + Len(c)) = c

\* What json.Marshal makes of k: every other byte beyond ASCII is replaced.
Coded(k) == [n \in DOMAIN k |-> IF k[n] \in Beyond /\ ~Whole(k, n) THEN Replacement ELSE k[n]]

\* writeToEngine
Send(k) == wire' = Append(wire, Coded(k)) /\ keystroke' = <<>>

Press(k) ==
    /\ stdin = <<>> /\ presses < MaxPresses /\ Len(wire) < MaxAhead
    /\ stdin' = k
    /\ presses' = presses + 1
    /\ due' = due \o k
    /\ UNCHANGED <<keystroke, wire, dropped>>

\* A byte is read while the bytes p are there: they become one message, or wait.
Read(p, ends) ==
    /\ keystroke = p /\ stdin # <<>>
    /\ stdin' = Tail(stdin)
    /\ LET k == Append(p, Head(stdin))
       IN  IF ends THEN Send(k) ELSE keystroke' = k /\ UNCHANGED wire
    /\ UNCHANGED <<presses, due, dropped>>

\* The first byte of a key.
ReadFirst == stdin # <<>> /\ Read(<<>>, Head(stdin) # "esc")

\* readWithTimeout: the byte after an ESC is there in time,
ReadEscaped == Read(<<"esc">>, FALSE)

\* or it is not.
Timeout ==
    /\ keystroke = <<"esc">>
    /\ Send(keystroke)
    /\ UNCHANGED <<stdin, presses, due, dropped>>

\* Mutant: only the last byte of a sequence is sent.
ReadSequenceShort ==
    /\ Len(keystroke) >= 2 /\ keystroke[2] = "[" /\ stdin # <<>>
    /\ stdin' = Tail(stdin)
    /\ Send(<<Head(stdin)>>)
    /\ UNCHANGED <<presses, due, dropped>>

\* ESC [ and an arrow's letter is a key; any other sequence goes on until a
\* capital letter or ~ at its fourth byte or later.
ReadSequence ==
    /\ Len(keystroke) >= 2 /\ keystroke[2] = "[" /\ stdin # <<>>
    /\ Read(keystroke, Head(stdin) \in (IF Len(keystroke) = 2 THEN Arrows ELSE Enders))

\* ESC and another byte than [ is sent when the next byte comes, which is lost.
ReadBehindAlt ==
    /\ Len(keystroke) = 2 /\ keystroke[2] # "[" /\ stdin # <<>>
    /\ stdin' = Tail(stdin)
    /\ Send(keystroke)
    /\ dropped' = TRUE
    /\ UNCHANGED <<presses, due>>

ClientInit ==
    /\ stdin = <<>> /\ keystroke = <<>> /\ wire = <<>>
    /\ presses = 0 /\ due = <<>> /\ dropped = FALSE

ClientNext ==
    \/ \E k \in Presses : Press(k)
    \/ ReadFirst \/ ReadEscaped \/ Timeout \/ ReadSequence \/ ReadBehindAlt
=============================================================================
