---------------------------- MODULE MCJitterBuffer ----------------------------
(***************************************************************************)
(* A small instance of JitterBuffer.  A stream is given by the positions   *)
(* where a new frame begins and by at most one packet with an odd payload; *)
(* its frames are TsStep apart.  Plain streams (OrderlyStream) have a      *)
(* start flag on the first packet of a frame and no counter that wraps; in *)
(* rough ones both counters wrap, every packet has a start flag, and the   *)
(* last packet has the slot of the first.                                  *)
(***************************************************************************)
EXTENDS JitterBuffer

CONSTANTS
    StreamLength,           \* packets per stream
    PlainSeq, PlainTs,      \* where the counters of a plain stream begin
    RoughSeq, RoughTs,      \* where the counters of a rough stream begin
    TsStep                  \* distance of two frames

FrameNumber(cuts, n) == Cardinality({c \in cuts : c <= n})

MakeStream(cuts, seq, ts, starts, odd, kind) ==
    [n \in 1 .. StreamLength |->
        [seq |-> (seq + n - 1) % SeqMod,
         ts |-> (ts + TsStep * FrameNumber(cuts, n)) % TsMod,
         kind |-> CASE n = odd -> kind
                    [] n # odd /\ n \in starts -> "start"
                    [] OTHER -> "cont"]]

Cuts == SUBSET (2 .. StreamLength)
Odd == 0 .. StreamLength

PlainStreams ==
    {MakeStream(cuts, PlainSeq, PlainTs, {1} \cup cuts, odd, "bad") : cuts \in Cuts, odd \in Odd}

RoughStreams ==
    {MakeStream(cuts, RoughSeq, RoughTs, 1 .. StreamLength, odd, kind) :
        cuts \in {c \in Cuts : Cardinality(c) <= 2}, odd \in Odd, kind \in {"empty", "bad"}}

MCStreams == PlainStreams \cup RoughStreams

=============================================================================
