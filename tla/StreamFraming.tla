---------------------------- MODULE StreamFraming ----------------------------
(***************************************************************************)
(* JSON messages on a TCP stream.  Both directions use RequestBuilder's    *)
(* text, one indented object after the other, and neither end keeps        *)
(* anything between two reads.  Server::readyRead cuts a read at "}{"      *)
(* without its newlines and puts back one brace on each side;              *)
(* ClientManager::handleReceivedData cuts at "}\n{", strips every outer    *)
(* brace and puts back as many as a message has, which also repairs a      *)
(* message torn within its outer braces.  The third reader, the bridge of  *)
(* server.py, is the subject of module HttpBridge.                         *)
(***************************************************************************)
EXTENDS Naturals, SequencesExt

CONSTANTS
  MaxMessages    \* bound: messages written

ASSUME FramingAssumption == MaxMessages \in Nat \ {0}

VARIABLES
  reader,   \* who reads this stream: "server", "client" or "bridge"
  sent,     \* messages written so far
  position, \* tokens of the stream read so far
  handled,  \* the messages handled, in order
  whole     \* history: the messages that lay wholly inside one read

vars == <<reader, sent, position, handled, whole>>

(* The text of message n as the tokens a read may be cut between: braces,  *)
(* white space, and the text around them.  The value is cut inside the     *)
(* two-byte degree sign of its unit.                                       *)
Text(n, part) == <<n, part>>
Open == Text(0, "{")
Close == Text(0, "}")
Newline == Text(0, "\n")

(* toString: the header and the payload, an object with one value. *)
Message(n) ==
  << Open, Newline, Text(n, "header"), Text(n, "payload"), Open,
     Text(n, "value"), Text(n, "end of value"),
     Newline, Close, Newline, Close, Newline >>

MessageLen == Len(Message(1))

(* The token at position p of the stream, one message after the other. *)
TokenAt(p) == Message((p - 1) \div MessageLen + 1)[((p - 1) % MessageLen) + 1]

Stream == [p \in 1..sent * MessageLen |-> TokenAt(p)]
-----------------------------------------------------------------------------

(* The elements of seq at the positions in S, in their order: SelectSeq,   *)
(* but by position, and all its stages.                                    *)
Picks(seq, S) ==
  LET pick[i \in 0..Len(seq)] ==
        IF i = 0 THEN <<>>
        ELSE IF i \in S THEN Append(pick[i - 1], seq[i]) ELSE pick[i - 1]
  IN  pick

Picked(seq, S) == Picks(seq, S)[Len(seq)]

Positions(seq) == [i \in 1..Len(seq) |-> i]

NoSpace(text) == Picked(text, {i \in DOMAIN text : text[i] # Newline})

(* QString::split.  The separators cannot overlap themselves. *)
Split(text, separator) ==
  LET width == Len(separator)
      cuts == Picked(Positions(text),
                     {i \in 1..Len(text) + 1 - width :
                        SubSeq(text, i, i + width - 1) = separator})
      pieces == Len(cuts) + 1
  IN  [p \in 1..pieces |->
         SubSeq(text, IF p = 1 THEN 1 ELSE cuts[p - 1] + width,
                      IF p = pieces THEN Len(text) ELSE cuts[p] - 1)]

NotParsed == 0

(* Mutant of Parsed: what does not parse is handled all the same. *)
ParsedAnyway(text) ==
  LET found == {n \in 1..MaxMessages : NoSpace(text) = NoSpace(Message(n))}
  IN  IF found = {} THEN MaxMessages + 1 ELSE CHOOSE n \in found : TRUE

(* QJsonDocument::fromJson: the message a piece of text amounts to, if any.*)
Parsed(text) ==
  LET found == {n \in 1..MaxMessages : NoSpace(text) = NoSpace(Message(n))}
  IN  IF found = {} THEN NotParsed ELSE CHOOSE n \in found : TRUE

(* Mutant of ServerRequests: only the outer pieces get their braces back. *)
ServerRequestsNoMiddle(text) ==
  LET pieces == Split(NoSpace(text), <<Close, Open>>) IN
  [p \in DOMAIN pieces |->
     IF Len(pieces) = 1 THEN pieces[p]
     ELSE IF p = 1 THEN Append(pieces[p], Close)
     ELSE IF p = Len(pieces) THEN <<Open>> \o pieces[p]
     ELSE pieces[p]]

(* Server::readyRead. *)
ServerRequests(text) ==
  LET pieces == Split(NoSpace(text), <<Close, Open>>) IN
  [p \in DOMAIN pieces |->
     (IF p = 1 THEN <<>> ELSE <<Open>>) \o pieces[p]
       \o (IF p = Len(pieces) THEN <<>> ELSE <<Close>>)]

(* removeExtraCurlyBrackets. *)
Stripped(text) ==
  LET kept == {i \in DOMAIN text :
        /\ \E j \in 1..i : text[j] \notin {Open, Newline}
        /\ \E j \in i..Len(text) : text[j] \notin {Close, Newline}}
  IN  IF kept = {} THEN <<>> ELSE SubSeq(text, Min(kept), Max(kept))

(* A piece equal to the first or last one as it was cut, that is a read    *)
(* without anything to strip, keeps its lack of braces.                    *)
Repaired(pieces, p) ==
  LET text == Stripped(pieces[p]) IN
  (IF text = Head(pieces) THEN <<>> ELSE <<Open>>) \o text
    \o (IF text = Last(pieces) THEN <<>> ELSE <<Close, Close>>)

(* Mutant of ClientUpdates: the line ClientManager.cpp:233 has commented   *)
(* out parses the whole read once more.                                    *)
ClientUpdatesTwice(text) ==
  LET adjacent == Split(text, <<Close, Open>>)
      pieces == IF Len(adjacent) > 1 THEN adjacent
                ELSE Split(text, <<Close, Newline, Open>>)
  IN  Append([p \in DOMAIN pieces |-> Repaired(pieces, p)], text)

(* handleReceivedData. *)
ClientUpdates(text) ==
  LET adjacent == Split(text, <<Close, Open>>)
      pieces == IF Len(adjacent) > 1 THEN adjacent
                ELSE Split(text, <<Close, Newline, Open>>)
  IN  [p \in DOMAIN pieces |-> Repaired(pieces, p)]

Handled(text) ==
  LET pieces == IF reader = "server" THEN ServerRequests(text)
                                   ELSE ClientUpdates(text)
      read == [p \in DOMAIN pieces |-> Parsed(pieces[p])]
  IN  Picked(read, {p \in DOMAIN read : read[p] # NotParsed})
-----------------------------------------------------------------------------

TypeOK ==
  /\ reader \in {"server", "client", "bridge"}
  /\ sent \in 0..MaxMessages
  /\ position \in 0..sent * MessageLen
  /\ handled \in Seq(1..sent)
  /\ whole \subseteq 1..sent

Init ==
  /\ reader \in {"server", "client", "bridge"}
  /\ sent = 0
  /\ position = 0
  /\ handled = <<>>
  /\ whole = {}

Write ==
  /\ sent < MaxMessages
  /\ sent' = sent + 1
  /\ UNCHANGED <<reader, position, handled, whole>>

(* Message n, but for its last newline, lies between two positions. *)
Inside(n, from, to) ==
  from <= (n - 1) * MessageLen /\ n * MessageLen - 1 <= to

(* readAll returns what has arrived, wherever that ends. *)
Read ==
  /\ reader # "bridge"
  /\ \E to \in position + 1 .. Len(Stream) :
       /\ position' = to
       /\ handled' = handled \o Handled(SubSeq(Stream, position + 1, to))
       /\ whole' = whole \cup {n \in 1..sent : Inside(n, position, to)}
       /\ UNCHANGED <<reader, sent>>

Next == Write \/ Read

Spec == Init /\ [][Next]_vars
-----------------------------------------------------------------------------

(* Messages are handled in the order in which they were written and never  *)
(* twice, however the stream is torn and whatever the repair puts back.    *)
InOrder == \A i, j \in DOMAIN handled : i < j => handled[i] < handled[j]

(* A message that arrives in one piece is handled, whatever fragments of   *)
(* its neighbours arrive with it.                                          *)
WholeHandled == \A n \in whole : \E i \in DOMAIN handled : handled[i] = n
=============================================================================
