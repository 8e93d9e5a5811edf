------------------------------ MODULE HttpBridge ------------------------------
(***************************************************************************)
(* server.py: a client of the server that serves the last value of each    *)
(* field over HTTP.  Its receiving thread keeps text between two reads,    *)
(* looks for one object from the first opening to the last closing brace,  *)
(* and drops all of that text when it is not one.  The server writes a     *)
(* message per field, here the longitude and the latitude of a fix in      *)
(* turn.                                                                   *)
(***************************************************************************)
EXTENDS StreamFraming, FiniteSetsExt

VARIABLES
  receiving,  \* the receiving thread runs
  cut,        \* tokens no longer in the buffer: it holds cut + 1 .. position
  ends,       \* history: how reads ended around the end of each message
  firstRead,  \* what the /api/location request in progress has read first
  location    \* the last answer to /api/location

bridgeVars == <<reader, sent, position, handled, whole,
                receiving, cut, ends, firstRead, location>>

NoRequest == -1
NoValue == 0

(* The message that is the latest one stored for a field, NoValue if none. *)
Fields == {"lon", "lat"}
FieldOf(n) == IF n % 2 = 1 THEN "lon" ELSE "lat"
DataStore(f) ==
  Max({NoValue} \cup {n \in ToSet(handled) : FieldOf(n) = f})

BridgeTypeOK ==
  /\ TypeOK
  /\ receiving \in BOOLEAN
  /\ cut \in 0..position
  /\ ends \in [1..MaxMessages -> SUBSET {"between", "after"}]
  /\ firstRead \in 0..MaxMessages \cup {NoRequest}
  /\ location \in [Fields -> 0..MaxMessages]

BridgeInit ==
  /\ Init
  /\ receiving = TRUE
  /\ cut = 0
  /\ ends = [n \in 1..MaxMessages |-> {}]
  /\ firstRead = NoRequest
  /\ location = [f \in Fields |-> NoValue]
------------------------------------------------------------------------------

Begin(n) == (n - 1) * MessageLen + 1
Where(token, from, to) == {p \in from..to : TokenAt(p) = token}

(* The last two braces of message n. *)
InnerClose(n) == Begin(n) + 8
OuterClose(n) == Begin(n) + 10

(* A read that ends inside a multi-byte character cannot be decoded. *)
Torn(to) == TokenAt(to)[2] = "value"

(* Mutant of LastClose: the first closing brace, str.find. *)
FirstClose(to) == Min(Where(Close, cut + 1, to))

LastClose(to) == Max(Where(Close, cut + 1, to))

(* The loop has something to parse: an opening brace before the last       *)
(* closing one.                                                            *)
HasObject(to) ==
  /\ Where(Close, cut + 1, to) # {}
  /\ Where(Open, cut + 1, to) # {}
  /\ Min(Where(Open, cut + 1, to)) < LastClose(to)

(* json.loads of that text succeeds if it is one message; anything else is *)
(* not JSON, or not a message and has no payload.                          *)
Objects(to) ==
  IF HasObject(to)
  THEN {n \in 1..sent : /\ Min(Where(Open, cut + 1, to)) = Begin(n)
                        /\ LastClose(to) = OuterClose(n)}
  ELSE {}

(* Mutant of CutAfter: the text that could not be parsed is kept. *)
CutAfterParsed(to) == IF Objects(to) # {} THEN LastClose(to) ELSE cut

(* buffer = buffer[end:], parsed or not.  What is left has no closing      *)
(* brace, so the inner loop ends.                                          *)
CutAfter(to) == IF HasObject(to) THEN LastClose(to) ELSE cut

(* Where a read ended that ended near the braces of message n. *)
EndKind(n, to) ==
  IF to < InnerClose(n) \/ to >= InnerClose(n) + MessageLen THEN {}
  ELSE IF to < OuterClose(n) THEN {"between"} ELSE {"after"}

(* One round of receive_data; a torn character ends the thread. *)
Receive ==
  /\ reader = "bridge"
  /\ receiving
  /\ \E to \in position + 1 .. sent * MessageLen :
       /\ position' = to
       /\ receiving' = ~Torn(to)
       /\ IF Torn(to)
          THEN UNCHANGED <<handled, cut, ends>>
          ELSE /\ handled' = handled \o SetToSeq(Objects(to))
               /\ cut' = CutAfter(to)
               /\ ends' = [n \in DOMAIN ends |-> ends[n] \cup EndKind(n, to)]
  /\ UNCHANGED <<reader, sent, whole, firstRead, location>>

(* The connection ends and with it the thread; nobody makes another one.   *)
(* running, and so /api/health, does not change.                           *)
ConnectionEnds ==
  /\ reader = "bridge"
  /\ receiving
  /\ receiving' = FALSE
  /\ UNCHANGED <<reader, sent, position, handled, whole, cut, ends,
                 firstRead, location>>

(* Mutant of FirstField: the latitude is read first. *)
FirstFieldLat == "lat"

(* get_location reads one field and then the other, each under the lock. *)
FirstField == "lon"
SecondField == IF FirstField = "lon" THEN "lat" ELSE "lon"

GetLocation ==
  /\ reader = "bridge"
  /\ firstRead = NoRequest
  /\ firstRead' = DataStore(FirstField)
  /\ UNCHANGED <<reader, sent, position, handled, whole, receiving, cut, ends,
                 location>>

AnswerLocation ==
  /\ firstRead # NoRequest
  /\ location' = [f \in Fields |-> IF f = FirstField THEN firstRead
                                   ELSE DataStore(SecondField)]
  /\ firstRead' = NoRequest
  /\ UNCHANGED <<reader, sent, position, handled, whole, receiving, cut, ends>>

(* The server writes to this reader as to the others. *)
ServerWrites ==
  /\ Write
  /\ UNCHANGED <<receiving, cut, ends, firstRead, location>>

OtherReads ==
  /\ Read
  /\ UNCHANGED <<receiving, cut, ends, firstRead, location>>

BridgeNext ==
  \/ ServerWrites
  \/ OtherReads
  \/ Receive
  \/ ConnectionEnds
  \/ GetLocation
  \/ AnswerLocation

BridgeSpec == BridgeInit /\ [][BridgeNext]_bridgeVars
------------------------------------------------------------------------------

(* Exactly those updates are stored whose end a read has to itself: one    *)
(* ended between the end of the message and that of the next one, none     *)
(* between its two closing braces, and one between the end of its          *)
(* predecessor and its own.  Two updates in one read lose both, and the    *)
(* buffer never joins what two reads brought wrongly.                      *)
StoredExactly ==
  reader = "bridge" =>
    ToSet(handled) = {n \in 1..MaxMessages :
                        /\ ends[n] = {"after"}
                        /\ n = 1 \/ ends[n - 1] # {}}

(* Less than a message waits in the buffer: it does not grow with what     *)
(* could not be parsed.                                                    *)
BufferBounded ==
  reader = "bridge" /\ receiving => position - cut < MessageLen

(* /api/location reads longitude and latitude separately.  As long as no   *)
(* update was lost, the latitude of an answer is at most one fix older     *)
(* than its longitude (it may be any number of fixes younger).             *)
LocationSkew ==
  reader = "bridge" /\ (\A n \in 1..location["lon"] : n \in ToSet(handled))
    => location["lat"] >= location["lon"] - 1
==============================================================================
