---------------------------- MODULE ServingEntry ----------------------------
(***************************************************************************)
(* What the TypeScript client makes of the data of a record: one message of *)
(* any class, or a request and its response in the layout that             *)
(* asServingReqRes (index.ts) expects and the gateway writes.              *)
(***************************************************************************)
EXTENDS Codec

CONSTANTS
  Entries,  (* what is stored: the classes of the messages in it, none for  *)
            (* the blank a subsample has for an id it did not find          *)
  Budget    (* entry -> bound on the fields of its messages                 *)

Request == "PredictRequest"

(* The classes of a response and the numbers that announce them. *)
Numbers == [ExecutionError |-> 2, PredictResponse |-> 3]

ASSUME EntriesAssumption ==
  /\ {Request} \cup DOMAIN Numbers \subseteq Classes
  /\ Budget \in [Entries -> Nat]
  /\ \A e \in Entries :
       \/ e = <<>>
       \/ \E c \in Classes : e = <<c>>
       \/ \E c \in DOMAIN Numbers : e = <<Request, c>>

VARIABLES
  parts,    (* the classes of the messages of the entry                     *)
  bodies,   (* the messages written so far, with their pieces               *)
  data,     (* the data of the record                                       *)
  step,     (* "bodies", "message", "request", "response", "returned",      *)
            (* "threw"                                                      *)
  results   (* the messages read so far                                     *)

entry == <<parts, bodies, data, step, results>>
allVars == <<vars, entry>>

Init ==
  /\ parts \in Entries
  /\ bodies = <<>>
  /\ data = <<>>
  /\ step = "bodies"
  /\ results = <<>>
  /\ phase = IF parts = <<>> THEN "written" ELSE "write"
  /\ author \in Writers
  /\ buf = <<>>
  /\ writing = IF parts = <<>> THEN <<>> ELSE <<Begin(parts[1])>>
  /\ left = Budget[parts]
  /\ written = NoMessage
  /\ pos = 0
  /\ calls = <<>>
  /\ result = NoMessage

-----------------------------------------------------------------------------
(* The gateway writes the messages one by one, then puts them together: the *)
(* sizes of request and response, then each of them behind a flag, 0 for an *)
(* empty one, the response behind its number as well.                      *)

TakeBody ==
  /\ phase = "written"
  /\ step = "bodies"
  /\ Len(bodies) < Len(parts)
  /\ bodies' = Append(bodies, [pieces |-> buf, message |-> written])
  /\ IF Len(bodies') < Len(parts)
       THEN /\ phase' = "write"
            /\ buf' = <<>>
            /\ writing' = <<Begin(parts[Len(bodies') + 1])>>
            /\ UNCHANGED <<author, left, written>>
       ELSE UNCHANGED <<phase, writer>>
  /\ UNCHANGED <<reader, parts, data, step, results>>

Int32(n) == [piece |-> "int", n |-> n]
Flag(n)  == [piece |-> "flag", n |-> n]

Body(i, flag) == <<Flag(flag)>> \o bodies[i].pieces

(* The bytes an entry of a request and a response consists of. *)
Layout(flags) ==
  LET req  == Body(1, flags[1])
      resp == <<Int32(Numbers[parts[2]])>> \o Body(2, flags[2])
  IN <<Int32(Len(req)), Int32(Len(resp))>> \o req \o resp

AllTaken == step = "bodies" /\ phase = "written" /\ Len(bodies) = Len(parts)

-----------------------------------------------------------------------------
(* The reader. An array of JavaScript has `undefined` beyond its end, which *)
(* readInt takes for 0, and slice stops at it.                             *)

readInt(b, offset) == IF offset < Len(b) THEN b[offset + 1].n ELSE 0

slice(b, from, to) == SubSeq(b, from + 1, IF to < Len(b) THEN to ELSE Len(b))

Start(class, body) ==
  /\ phase' = "read"
  /\ buf' = body
  /\ pos' = 0
  /\ calls' = <<[class |-> class, end |-> Len(body), message |-> New(class),
                 for |-> NoField, key |-> NoKey]>>
  /\ result' = NoMessage
  /\ UNCHANGED <<author, writing, left, written>>

(* Mutant: the flag is taken for a part of the message. *)
DecodeFlagToo(b, class) == Start(class, b)

decode(b, class) ==
  Start(class, IF b # <<>> /\ b[1].n = 0 THEN <<>> ELSE slice(b, 1, Len(b)))

(* A message by itself: `decode` of its class. *)
DecodeMessage ==
  /\ AllTaken
  /\ Len(parts) = 1
  /\ Start(parts[1], bodies[1].pieces)
  /\ step' = "message"
  /\ UNCHANGED <<parts, bodies, data, results>>

(* asServingReqRes, up to the request. *)
DecodeRequest ==
  /\ AllTaken
  /\ Len(parts) # 1
  /\ \/ parts = <<>> /\ data' = <<>>
     \/ /\ Len(parts) = 2
        /\ \E flags \in [1..2 -> {0, 1}] :
             /\ \A i \in 1..2 : flags[i] = 0 => bodies[i].pieces = <<>>
             /\ data' = Layout(flags)
  /\ decode(slice(data', 2, 2 + readInt(data', 0)), Request)
  /\ step' = "request"
  /\ UNCHANGED <<parts, bodies, results>>

respBody ==
  LET reqSize  == readInt(data, 0)
      respSize == readInt(data, 1)
  IN slice(data, 2 + reqSize, 2 + reqSize + respSize)

(* Mutant: every number that is not an error is a response. *)
AnyResponse ==
  /\ phase = "done"
  /\ step = "request"
  /\ results' = Append(results, result)
  /\ decode(slice(respBody, 1, Len(respBody)),
            IF readInt(respBody, 0) = 2 THEN "ExecutionError" ELSE "PredictResponse")
  /\ step' = "response"
  /\ UNCHANGED <<parts, bodies, data>>

(* decodeRespOrError *)
decodeRespOrError ==
  /\ phase = "done"
  /\ step = "request"
  /\ results' = Append(results, result)
  /\ LET num == readInt(respBody, 0) IN
       \/ \E class \in DOMAIN Numbers :
            /\ num = Numbers[class]
            /\ decode(slice(respBody, 1, Len(respBody)), class)
            /\ step' = "response"
       \/ /\ \A class \in DOMAIN Numbers : num # Numbers[class]
          /\ step' = "threw"
          /\ UNCHANGED vars
  /\ UNCHANGED <<parts, bodies, data>>

ReturnResult ==
  /\ phase = "done"
  /\ step \in {"message", "response"}
  /\ results' = Append(results, result)
  /\ step' = "returned"
  /\ UNCHANGED <<vars, parts, bodies, data>>

-----------------------------------------------------------------------------
Reading ==
  \/ /\ phase = "read" /\ Decode
     /\ UNCHANGED entry
  \/ DecodeMessage \/ DecodeRequest \/ decodeRespOrError \/ ReturnResult

Ended == step \in {"returned", "threw"} /\ UNCHANGED allVars

Next ==
  \/ /\ phase = "write" /\ Write
     /\ UNCHANGED entry
  \/ TakeBody
  \/ Reading
  \/ Ended

Spec == Init /\ [][Next]_allVars

(* The client runs its synchronous code to the end. *)
FairSpec == Spec /\ WF_allVars(Reading)

-----------------------------------------------------------------------------
TypeOK ==
  /\ phase \in {"write", "written", "read", "done"}
  /\ author \in Writers
  /\ parts \in Entries
  /\ Len(bodies) <= Len(parts)
  /\ step \in {"bodies", "message", "request", "response", "returned", "threw"}
  /\ left \in 0..Budget[parts]
  /\ pos \in 0..Len(buf)
  /\ \A i \in DOMAIN calls : calls[i].class \in Classes

(* The reader never takes a piece for what it is not, whatever order,       *)
(* repetition, packing and unknown fields the writer chose, and a nested    *)
(* decode ends within the one it was called from                           *)
(* (`end = reader.pos + length`, compiled.js:12928).                       *)
ReaderStaysInside ==
  /\ ~ Lost
  /\ \A i \in DOMAIN calls : i > 1 => calls[i].end <= calls[i - 1].end
  /\ phase = "read" => pos <= call.end

(* What is read is what was written: every scalar, element, nested message  *)
(* and map entry in its field, for every class, through every nesting, and  *)
(* request and response each from its own slice (index.ts:54-77).          *)
DecodesWhatWasWritten ==
  step = "returned" =>
    /\ Len(results) = Len(bodies)
    /\ \A i \in DOMAIN results : results[i] = bodies[i].message

(* The request is decoded from the pieces of the request, the response from *)
(* those of the response: sizes, flags and number are counted as the writer *)
(* counts them (index.ts:56-60).                                            *)
SlicesAreRight ==
  /\ step = "request" => buf = IF parts = <<>> THEN <<>> ELSE bodies[1].pieces
  /\ step = "response" => buf = bodies[2].pieces

(* The blank data a subsample may contain is refused, and nothing else is   *)
(* (index.ts:74): no request is made up for it.                            *)
OnlyBlanksThrow ==
  /\ step = "threw" => parts = <<>>
  /\ step = "returned" => parts # <<>>

(* Every step of a decode brings it nearer to its end: it has read some      *)
(* pieces, or a nested decode has returned.  The loop itself has no bound   *)
(* (`while (reader.pos < end)`, compiled.js:12929).                         *)
DecodeAdvances ==
  [][phase = "read" /\ UNCHANGED step => phase' = "done" \/ Ahead' < Ahead]_allVars

(* Once the data is there, decoding comes to an end, though the loops have *)
(* no bound but the position (compiled.js:12929).                          *)
DecodeEnds == step # "bodies" ~> step \in {"returned", "threw"}

=============================================================================
