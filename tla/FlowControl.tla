---------------------------- MODULE FlowControl ----------------------------
(***************************************************************************)
(* FlowControlManager: a dictionary from stream identifiers to the number  *)
(* of bytes that may still be sent on the stream, 0 being the connection.  *)
(* A window is a C# uint, so arithmetic is modulo UIntModulus (2^32 in the *)
(* code).  The dictionary has no lock: the steps that two threads can      *)
(* interleave (lookup, insertion of a missing key, write back) are the     *)
(* operators of this module, and their callers take them one at a time.    *)
(***************************************************************************)
EXTENDS Integers

CONSTANTS UIntModulus,        \* 2^32 in the code
          DefaultWindowSize   \* Http2Settings.DefaultWindowSize

ASSUME FlowControlAssumption ==
  /\ UIntModulus \in Nat \ {0}
  /\ DefaultWindowSize \in 0 .. UIntModulus - 1

UInt == 0 .. UIntModulus - 1

USub(a, b) == (a - b) % UIntModulus
UAdd(a, b) == (a + b) % UIntModulus

\* The dictionary after  windowSizes.Add(id, DefaultWindowSize).
AddWindow(windows, id) ==
  [s \in DOMAIN windows \union {id} |->
     IF s \in DOMAIN windows THEN windows[s] ELSE DefaultWindowSize]

\* What GetWindowSize returns.
GetWindowSize(windows, id) == AddWindow(windows, id)[id]

\* newAmount of DecreaseWindowSize, with its test for a negative uint.
Decreased(current, amount) ==
  LET newAmount == USub(current, amount)
  IN  IF newAmount < 0 THEN 0 ELSE newAmount

\* newAmount of IncreaseWindowSize.
Increased(current, amount) == UAdd(current, amount)

\* Mutant of WindowTooSmall: the subtraction is made on signed integers.
WindowTooSmallSigned(windows, id, length) ==
  \/ GetWindowSize(windows, 0) - length < 0
  \/ GetWindowSize(windows, id) - length < 0

\* Whether a DATA frame may go: the uint difference of window and length is
\* compared with zero, for the connection and for the stream.
WindowTooSmall(windows, id, length) ==
  \/ USub(GetWindowSize(windows, 0), length) < 0
  \/ USub(GetWindowSize(windows, id), length) < 0
=============================================================================
