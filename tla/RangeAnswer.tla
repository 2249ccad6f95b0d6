---------------------------- MODULE RangeAnswer ----------------------------
(***************************************************************************)
(* The answer to a range request over HTTP, from the scan to the client:   *)
(* GetRangeHandler writes a frame for each message that RangeScan sends,   *)
(* the connection carries the frames, or a part of them, to the client,    *)
(* and decodeTsRecord (index.ts) takes them apart.                         *)
(*                                                                         *)
(* The stream is a sequence of numbers: each field of a frame's header is  *)
(* one, and so is each byte of a body.  SubsamplingHandler writes the same  *)
(* frames.                                                                 *)
(***************************************************************************)
EXTENDS RangeScan

CONSTANTS
  Body,     (* key -> the bytes of its message                              *)
  ToNumber  (* what Long.toNumber makes of an integer: it takes the 64 bits *)
            (* for a signed number, as GetRangeHandler does, and makes it a *)
            (* double, exact up to 2^53 and rounded above                   *)

HeaderSize == 3

ASSUME AnswerAssumption ==
  /\ Body \in [Keys -> Seq(Nat)]
  /\ \A k \in Keys :
       /\ ToNumber[k.timestamp] \in Int
       /\ ToNumber[k.unique] \in Int
       /\ Size[k] = HeaderSize + Len(Body[k])

VARIABLES
  wire,      (* what has been written to the connection                     *)
  ends,      (* ghost: where its frames end                                 *)
  received,  (* what has arrived at the client                              *)
  offset,    (* bb.offset                                                   *)
  records,   (* the records decoded so far                                  *)
  client     (* "waiting", "decoding", "returned" or "threw"                *)

written == <<wire, ends>>
decoder == <<received, offset, records, client>>
allVars == <<vars, written, decoder>>

AnswerInit ==
  /\ Init
  /\ wire = <<>>
  /\ ends = <<>>
  /\ received = <<>>
  /\ offset = 0
  /\ records = <<>>
  /\ client = "waiting"

-----------------------------------------------------------------------------
(* The server. *)

(* Mutant: the length counts the header as well, as what fn returns does. *)
FrameWithTotal(k) ==
  <<k.timestamp, k.unique, Size[k]>> \o Body[k]

(* Mutant: the unique goes first. *)
FrameUniqueFirst(k) ==
  <<k.unique, k.timestamp, Len(Body[k])>> \o Body[k]

Frame(k) == <<k.timestamp, k.unique, Len(Body[k])>> \o Body[k]

SendFrame ==
  /\ Send
  /\ wire' = wire \o Frame(iter)
  /\ ends' = Append(ends, Len(wire'))
  /\ UNCHANGED decoder

Scan ==
  /\ SeekEnd \/ SeekKey \/ Fallback \/ Break \/ Continue \/ Advance
  /\ UNCHANGED <<written, decoder>>

-----------------------------------------------------------------------------
(* The client.  A connection may break: some of what was written arrives,   *)
(* and the rest never does.                                                *)
Deliver ==
  /\ pc = "done"
  /\ client = "waiting"
  /\ \E n \in 0..Len(wire) : received' = SubSeq(wire, 1, n)
  /\ client' = "decoding"
  /\ UNCHANGED <<vars, written, offset, records>>

(* decodeTsRecord: what `len` says of the frame at the offset, whether the  *)
(* buffer holds it all, and its parts.                                     *)
InLoop == client = "decoding" /\ offset < Len(received)

FrameEnd == offset + HeaderSize + received[offset + HeaderSize]

FrameThere ==
  /\ offset + HeaderSize <= Len(received)
  /\ FrameEnd <= Len(received)

Record ==
  [ts   |-> ToNumber[received[offset + 1]],
   uid  |-> ToNumber[received[offset + 2]],
   data |-> [i \in 1..received[offset + 3] |-> received[offset + HeaderSize + i]]]

ReadRecord ==
  /\ InLoop
  /\ FrameThere
  /\ records' = Append(records, Record)
  /\ offset' = FrameEnd
  /\ UNCHANGED <<vars, written, received, client>>

(* Mutant: a piece of a header at the end makes the loop wait for more. *)
WaitForHeader ==
  /\ InLoop
  /\ offset + HeaderSize <= Len(received)
  /\ ~ FrameThere
  /\ client' = "threw"
  /\ UNCHANGED <<vars, written, received, offset, records>>

(* A read beyond the end of the buffer throws. *)
ReadThrows ==
  /\ InLoop
  /\ ~ FrameThere
  /\ client' = "threw"
  /\ UNCHANGED <<vars, written, received, offset, records>>

(* The map of timestamps that follows the loop is dropped: the records are  *)
(* returned as they were read, one for each frame.                         *)
ReturnRecords ==
  /\ client = "decoding"
  /\ ~ InLoop
  /\ client' = "returned"
  /\ UNCHANGED <<vars, written, received, offset, records>>

-----------------------------------------------------------------------------
Server == Scan \/ SendFrame
Client == ReadRecord \/ ReadThrows \/ ReturnRecords

Ended == client \in {"returned", "threw"} /\ UNCHANGED allVars

AnswerNext == Server \/ Deliver \/ Client \/ Ended

AnswerSpec == AnswerInit /\ [][AnswerNext]_allVars

(* The server's thread is scheduled, and the client runs its loop to its    *)
(* end; whether anything arrives is up to the network.                     *)
FairAnswerSpec == AnswerSpec /\ WF_allVars(Server) /\ WF_allVars(Client)

-----------------------------------------------------------------------------
AnswerTypeOK ==
  /\ wire \in Seq(Nat)
  /\ ends \in Seq(Nat)
  /\ received \in Seq(Nat)
  /\ offset \in Nat
  /\ records \in Seq([ts : Int, uid : Int, data : Seq(Nat)])
  /\ client \in {"waiting", "decoding", "returned", "threw"}

(* The counters the limits are compared with count what was written, and no *)
(* answer exceeds maxmessages, nor maxbytes by more than its last message   *)
(* (DbClient.cpp:154-167, GetRangeHandler.cpp:82-93).                       *)
LimitsHold ==
  /\ messagesSend = Len(ends)
  /\ bytesSend = Len(wire)
  /\ query.maxmessages # 0 => Len(ends) <= query.maxmessages
  /\ query.maxbytes # 0 /\ sent # <<>> =>
       Len(wire) - Size[sent[Len(sent)]] < query.maxbytes

(* The records the client has are the first messages of the answer, in      *)
(* their order, with their bodies whole and their ids as near as a double   *)
(* comes to them (GetRangeHandler.cpp:83-91 against index.ts:86-89).        *)
ClientSeesAnswer ==
  /\ Len(records) <= Len(sent)
  /\ \A i \in DOMAIN records :
       /\ records[i].ts = ToNumber[sent[i].timestamp]
       /\ records[i].uid = ToNumber[sent[i].unique]
       /\ records[i].data = Body[sent[i]]

(* An answer that arrives whole is decoded whole.  One that was cut is      *)
(* refused, unless it was cut between two messages: then the client has no  *)
(* way to tell (index.ts:85-89).                                            *)
CutIsNoticed ==
  /\ client = "threw" => \A i \in DOMAIN ends : ends[i] # Len(received)
  /\ client = "returned" =>
       Len(received) = IF records = <<>> THEN 0 ELSE ends[Len(records)]

(* Whatever arrives, decoding it comes to an end.                           *)
DecodeEnds == client = "decoding" ~> client \in {"returned", "threw"}

(* The frames written and decoded so far: what makes the above inductive.   *)
Start(i) == IF i = 1 THEN 0 ELSE ends[i - 1]

Framing ==
  /\ Len(ends) = Len(sent)
  /\ Len(wire) = Start(Len(ends) + 1)
  /\ \A i \in DOMAIN ends :
       /\ ends[i] = Start(i) + Size[sent[i]]
       /\ ends[i] <= Len(wire)
       /\ \A j \in 1..Size[sent[i]] : wire[Start(i) + j] = Frame(sent[i])[j]
       /\ \A j \in DOMAIN ends : i < j => ends[i] < ends[j]

Decoding ==
  /\ IF client = "waiting" THEN records = <<>> ELSE pc = "done"
  /\ Len(records) <= Len(ends)
  /\ offset = Start(Len(records) + 1)
  /\ offset <= Len(received)
  /\ Len(received) <= Len(wire)
  /\ \A i \in DOMAIN received : received[i] = wire[i]

AnswerInv ==
  /\ ScanInv
  /\ AnswerTypeOK
  /\ LimitsHold
  /\ Framing
  /\ Decoding
  /\ ClientSeesAnswer
  /\ CutIsNoticed

=============================================================================
