---------------------------- MODULE SdpNegotiation ----------------------------
(***************************************************************************)
(* The description a viewer sends and the answer to it: the payload types  *)
(* are chosen from it for the transceivers (peer_connection_sdp.c), the    *)
(* answer is built from its lines (sdp_controller.c).  What was chosen     *)
(* stays in the session (mLines, payload, rtx, dataRemote) until another   *)
(* description or the end of the connection changes it.                    *)
(*                                                                         *)
(* A media line is a record: kind; formats, the payload types of its name; *)
(* attrs, its rtpmap and fmtp attributes in order; mid; dir.  One session  *)
(* is modelled, that of one client.  The handler of a message is one step  *)
(* here; a close, which other tasks do, is three.                          *)
(***************************************************************************)
EXTENDS Naturals, Sequences, SequencesExt

CONSTANTS
    Messages,        \* what comes: [type, valid, lines]
    Builds,          \* the codecs the firmware may be built with: [video, audio]
    MaxTransceivers, \* PEER_CONNECTION_TRANSCEIVER_MAX_COUNT
    MaxHandled       \* bound: messages handled

Media == {"video", "audio"}
Codecs == {"MULAW", "ALAW", "VP8", "OPUS", "H264", "H265"}
NoPt == 128  \* no payload type
NoMid == 128 \* no mid attribute

NoLine == [kind |-> "", formats |-> <<>>, attrs |-> <<>>, mid |-> NoMid, dir |-> "none"]

Rtpmap(pt, codec) == [name |-> "rtpmap", pt |-> pt, codec |-> codec, features |-> {}, apt |-> NoPt]
Fmtp(pt, features, apt) == [name |-> "fmtp", pt |-> pt, codec |-> "", features |-> features, apt |-> apt]

VARIABLES
    build,     \* the codec of the transceiver of each kind
    peer,      \* PeerConnectionSession_t, as far as descriptions use it
    peerClosing, \* what the tasks that close the session have still to do
    described, \* ghost: the shapes of the descriptions of this connection
    answer,    \* ghost: the last answer sent, with its offer
    messages   \* messages handled

sdpVars == <<build, peer, peerClosing, described, answer, messages>>

NoAnswer == [offer |-> <<>>, lines |-> <<>>, clean |-> FALSE]

\* state FIND stands for every state from FIND_CONNECTION to CONNECTION_READY.
SdpInit ==
    /\ build \in Builds
    /\ peer = [state |-> "INITED", mLines |-> <<>>, dataRemote |-> FALSE,
               payload |-> [k \in Media |-> 0], rtx |-> [k \in Media |-> 0]]
    /\ peerClosing = {} /\ described = {} /\ answer = NoAnswer /\ messages = 0

------------------------------------------------------------------------------
(* Payload types of the remote lines. *)

\* The digits of p begin the digits of q.
DecimalPrefix(p, q) ==
    \/ p = q
    \/ q >= 10 /\ p = q \div 10
    \/ q >= 100 /\ p = q \div 100

\* The fmtp attributes whose text begins with p.
FmtpsOf(line, p) == SelectSeq(line.attrs, LAMBDA a : a.name = "fmtp" /\ DecimalPrefix(p, a.pt))

\* CalculateH264ScoreByFmtp; "profile" is a profile-level-id of 42e0 up to level 1f.
Score(fmtp) ==
    (IF "mode" \in fmtp.features THEN 10 ELSE 0)
    + (IF "asymmetry" \in fmtp.features THEN 1 ELSE 0)
    + (IF "profile" \in fmtp.features THEN 1 ELSE 0)

\* FindH264FmtpAttribute: the last one counts.
H264Score(line, pt) == IF FmtpsOf(line, pt) = <<>> THEN 0 ELSE Score(Last(FmtpsOf(line, pt)))

SetPayload(s, codec, pt) ==
    [s EXCEPT !.enabled = @ \cup {codec}, !.payload[codec] = pt, !.rtx[codec] = 0]

\* One attribute in CollectAttributesCodec: the H264 payload type with the best score,
\* the first one of every other codec; an RTX payload type belongs to what it names.
CollectAttribute(line, s, a) ==
    CASE /\ a.name = "rtpmap" /\ a.codec = "H264" /\ s.best < 12
         /\ H264Score(line, a.pt) >= 10 /\ s.best < H264Score(line, a.pt)
            -> [SetPayload(s, "H264", a.pt) EXCEPT !.best = H264Score(line, a.pt)]
      [] a.name = "rtpmap" /\ a.codec \in Codecs \ ({"H264"} \cup s.enabled)
            -> SetPayload(s, a.codec, a.pt)
      [] a.name = "fmtp" /\ a.apt # NoPt
            -> [s EXCEPT !.rtx = [c \in Codecs |->
                   IF c \in s.enabled /\ s.payload[c] = a.apt THEN a.pt ELSE @[c]]]
      [] OTHER -> s

\* CollectAttributesCodec: the bit map and the best score are those of this line, the
\* payload types go where those of the lines before are.
CollectAttributesCodec(line, payload, rtx) ==
    FoldLeft(LAMBDA s, a : CollectAttribute(line, s, a),
             [enabled |-> {}, best |-> 0, payload |-> payload, rtx |-> rtx], line.attrs)

Statics(line) == SelectSeq(line.formats, LAMBDA f : f \in {0, 8})

\* GetPayloadTypesFromMedia: the first of the formats 0 and 8 needs no rtpmap.  Both
\* numbers are written to the place of MULAW.
GetPayloadTypes(s, line) ==
    LET static == Statics(line)
        named == IF static = <<>> THEN {} ELSE IF Head(static) = 0 THEN {"MULAW"} ELSE {"ALAW"}
        found == CollectAttributesCodec(line,
                    IF static = <<>> THEN s.payload ELSE [s.payload EXCEPT !["MULAW"] = Head(static)],
                    IF static = <<>> THEN s.rtx ELSE [s.rtx EXCEPT !["MULAW"] = 0])
    IN  [enabled |-> s.enabled \cup named \cup found.enabled,
         payload |-> found.payload, rtx |-> found.rtx]

\* SetPayloadType: the transceiver of the kind, if a codec of it has been seen and no
\* line before has taken it.  s.set are the transceivers taken.
SetPayloadType(s, line, remote) ==
    LET codec == build[line.kind]
    IN  CASE line.kind = "application" -> [s EXCEPT !.peer.dataRemote = TRUE]
          [] line.kind \in Media \ s.set /\ codec \in remote.enabled ->
                [s EXCEPT !.set = @ \cup {line.kind},
                          !.peer.payload[line.kind] = remote.payload[codec],
                          !.peer.rtx[line.kind] = remote.rtx[codec],
                          !.peer.mLines = IF Len(@) < MaxTransceivers THEN Append(@, line.kind) ELSE @]
          [] OTHER -> s

\* PeerConnectionSdp_SetPayloadTypes: the lines in order.
SetPayloadTypes(p, lines) ==
    LET none == [enabled |-> {}, payload |-> [c \in Codecs |-> 0], rtx |-> [c \in Codecs |-> 0]]
    IN  FoldLeft(LAMBDA s, line :
                    LET remote == GetPayloadTypes(s.remote, line)
                    IN  SetPayloadType([s EXCEPT !.remote = remote], line, remote),
                 [peer |-> p, set |-> {}, remote |-> none], lines).peer

\* ... whose result is that of the last line.
PayloadTypesSet(lines) == lines # <<>> => Last(lines).kind \in Media \cup {"application"}

------------------------------------------------------------------------------
(* The answer. *)

Mirrored(dir) ==
    CASE dir = "sendrecv" -> "sendrecv"
      [] dir = "sendonly" -> "recvonly"
      [] dir = "recvonly" -> "sendonly"
      [] OTHER -> "inactive"

Mid(remote, i) == IF remote.mid # NoMid THEN remote.mid ELSE i - 1

\* FindFmtpBasedOnCodec: the first one counts.
FirstFmtp(remote, payload) ==
    IF FmtpsOf(remote, payload) = <<>> THEN <<>> ELSE <<Head(FmtpsOf(remote, payload))>>

\* PopulateCodecAttributesMulaw, ...Alaw, ...Vp8.
PlainAttributes(codec, payload) == <<Rtpmap(payload, codec)>>

\* PopulateCodecAttributesOpus, ...H265.
FmtpAttributes(codec, payload, remote) == PlainAttributes(codec, payload) \o FirstFmtp(remote, payload)

\* Only PopulateCodecAttributesH264... names the RTX payload type.
RtxAttributes(payload, rtx) ==
    IF rtx = 0 THEN <<>> ELSE <<Rtpmap(rtx, "rtx"), Fmtp(rtx, {}, payload)>>

\* PopulateCodecAttributes.
CodecAttributes(codec, payload, rtx, remote) ==
    CASE codec = "H264" -> FmtpAttributes(codec, payload, remote) \o RtxAttributes(payload, rtx)
      [] codec \in {"H265", "OPUS"} -> FmtpAttributes(codec, payload, remote)
      [] OTHER -> PlainAttributes(codec, payload)

\* SdpController_PopulateSingleMedia for line i of the answer; remote is the line of
\* the offer at the same place.
PopulateSingleMedia(p, kind, remote, i) ==
    [kind |-> kind,
     formats |-> IF kind = "application" THEN <<>>
                 ELSE IF p.rtx[kind] = 0 THEN <<p.payload[kind]>> ELSE <<p.payload[kind], p.rtx[kind]>>,
     attrs |-> IF kind = "application" THEN <<>>
               ELSE CodecAttributes(build[kind], p.payload[kind], p.rtx[kind], remote),
     mid |-> Mid(remote, i),
     dir |-> IF kind = "application" THEN "none" ELSE Mirrored(remote.dir)]

\* PopulateMediaDescriptions: a line for each transceiver that was taken, then the
\* data channel.
PopulateMediaDescriptions(p, lines) ==
    LET kinds == p.mLines \o (IF p.dataRemote THEN <<"application">> ELSE <<>>)
    IN  [i \in DOMAIN kinds |->
            PopulateSingleMedia(p, kinds[i], IF i <= Len(lines) THEN lines[i] ELSE NoLine, i)]

------------------------------------------------------------------------------
(* What an offer must be like to be answered line by line. *)

PayloadTypesOf(line) == {line.attrs[j].pt : j \in DOMAIN line.attrs} \cup {line.formats[j] : j \in DOMAIN line.formats}
ExactFmtps(line, pt) == {j \in DOMAIN line.attrs : line.attrs[j].name = "fmtp" /\ line.attrs[j].pt = pt}

\* The payload types of the line that mean the codec; format 0 does without an rtpmap
\* unless format 8 comes first.
Offered(line, codec) ==
    {pt \in PayloadTypesOf(line) :
        \/ \E j \in DOMAIN line.attrs : line.attrs[j] = Rtpmap(pt, codec)
        \/ codec = "MULAW" /\ pt = 0 /\ Statics(line) # <<>> /\ Head(Statics(line)) = 0}
ExactScore(line, pt) == IF ExactFmtps(line, pt) = {} THEN 0 ELSE Score(line.attrs[CHOOSE j \in ExactFmtps(line, pt) : TRUE])

\* Kinds that are known and distinct, data last; in each line a payload type of the
\* codec built in, at most one fmtp each, and no payload type whose digits begin
\* another one's.
Regular(lines) ==
    /\ \A i \in DOMAIN lines : lines[i].kind \in Media \cup {"application"}
    /\ \A i, j \in DOMAIN lines : i < j => lines[i].kind # lines[j].kind /\ lines[i].kind # "application"
    /\ \A i \in DOMAIN lines : lines[i].kind \in Media =>
        /\ \E pt \in Offered(lines[i], build[lines[i].kind]) :
               build[lines[i].kind] = "H264" => ExactScore(lines[i], pt) >= 10
        /\ \A p, q \in PayloadTypesOf(lines[i]) : DecimalPrefix(p, q) => p = q
        /\ \A j, k \in DOMAIN lines[i].attrs :
               lines[i].attrs[j].name = "fmtp" /\ lines[i].attrs[k].name = "fmtp"
               /\ lines[i].attrs[j].pt = lines[i].attrs[k].pt => j = k

KindsOf(lines) == [i \in DOMAIN lines |-> lines[i].kind]
Shape(lines) == IF Regular(lines) THEN KindsOf(lines) ELSE <<"irregular">>

------------------------------------------------------------------------------
(* Handlers. *)

\* StartPeerConnectionSession.
Started(p) == [p EXCEPT !.state = "START"]

\* PeerConnection_SetRemoteDescription of a description that cannot be parsed: some of
\* its lines may have been read.
Unparsed(message, p) ==
    \E n \in 0..Len(message.lines) :
        /\ peer' = p
        /\ answer' \in {NoAnswer} \cup
              (IF message.type = "offer"
               THEN {[offer |-> message.lines, clean |-> FALSE,
                      lines |-> PopulateMediaDescriptions(p, SubSeq(message.lines, 1, n))]}
               ELSE {})

\* ... of one that can: what follows the payload types (the DTLS session, ICE, RTP)
\* may fail.  An offer is answered all the same, unless the answer cannot be built or
\* queued.
Parsed(message, p, shapes) ==
    LET chosen == SetPayloadTypes(p, message.lines)
        found == [chosen EXCEPT !.state = "FIND"]
        shape == Shape(message.lines)
    IN  /\ peer' \in {chosen} \cup (IF PayloadTypesSet(message.lines) THEN {found} ELSE {})
        /\ described' = shapes \cup {shape}
        /\ answer' \in {NoAnswer} \cup
              (IF message.type = "offer"
               THEN {[offer |-> message.lines,
                      lines |-> PopulateMediaDescriptions(chosen, message.lines),
                      clean |-> /\ Regular(message.lines) /\ peerClosing = {} /\ shapes \subseteq {shape}
                                /\ shapes = {} \/ Media \subseteq ToSet(shape)]}
               ELSE {})

\* The message of the client, for its session p: HandleSdpOffer, HandleSdpAnswer; a
\* candidate changes nothing here.
HandleMessage(message, p, shapes) ==
    /\ messages < MaxHandled /\ messages' = messages + 1
    /\ \/ message.type = "candidate"
          /\ peer' = p /\ described' = shapes /\ answer' = NoAnswer
       \/ message.type # "candidate" /\ ~message.valid
          /\ Unparsed(message, p) /\ described' = shapes
       \/ message.type # "candidate" /\ message.valid
          /\ Parsed(message, p, shapes)
    /\ UNCHANGED <<build, peerClosing>>

\* The message is not understood, or no session could be started for it.
MessageRefused ==
    /\ messages < MaxHandled /\ messages' = messages + 1
    /\ answer' = NoAnswer
    /\ UNCHANGED <<build, peer, peerClosing, described>>

\* PeerConnection_CloseSession in the session task, the listener or the timer task.
ClosePeer ==
    /\ peer.state \notin {"INITED", "CLOSING"}
    /\ peer' = [peer EXCEPT !.state = "CLOSING"]
    /\ peerClosing' = peerClosing \cup {"clear", "reset"}
    /\ UNCHANGED <<build, described, answer, messages>>

\* ... its end; ICE may have reported its own end before.
ClearDataRemote ==
    /\ "clear" \in peerClosing
    /\ peer' = [peer EXCEPT !.dataRemote = FALSE]
    /\ peerClosing' = peerClosing \ {"clear"}
    /\ UNCHANGED <<build, described, answer, messages>>

\* Mutant: the transceivers are dropped, their order in the description is not.
OnClosePeerConnection_KeepsLines ==
    /\ "reset" \in peerClosing
    /\ peer' = [peer EXCEPT !.state = "INITED"]
    /\ peerClosing' = peerClosing \ {"reset"}
    /\ described' = {}
    /\ UNCHANGED <<build, answer, messages>>

\* OnClosePeerConnection, when ICE has ended.
OnClosePeerConnection ==
    /\ "reset" \in peerClosing
    /\ peer' = [peer EXCEPT !.state = "INITED", !.mLines = <<>>]
    /\ peerClosing' = peerClosing \ {"reset"}
    /\ described' = {}
    /\ UNCHANGED <<build, answer, messages>>

CloseSteps == ClosePeer \/ ClearDataRemote \/ OnClosePeerConnection

------------------------------------------------------------------------------
(* Properties. *)

\* An answer is what the client can match with its offer: the same lines in the same
\* order, each with the mid and the mirrored direction of its own line, one payload
\* type that this line gives the codec built in, for H264 one of the best score, with
\* the fmtp of exactly that payload type and an RTX payload type only if the line
\* binds it to that one (PeerConnectionSdp_SetPayloadTypes, PopulateMediaDescriptions).
\* Promised for regular offers that find no close under way and are the first of their
\* connection, or repeat the lines of those before.
AnswersMirrorOffers ==
    answer.clean =>
        /\ KindsOf(answer.lines) = KindsOf(answer.offer)
        /\ \A i \in DOMAIN answer.offer :
            LET o == answer.offer[i]
                a == answer.lines[i]
                codec == build[a.kind]
                pt == a.formats[1]
            IN  /\ a.mid = IF o.mid = NoMid THEN i - 1 ELSE o.mid
                /\ a.kind \in Media =>
                    /\ a.dir = Mirrored(o.dir)
                    /\ pt \in Offered(o, codec)
                    /\ codec = "H264" =>
                        \A other \in Offered(o, codec) : ExactScore(o, other) <= ExactScore(o, pt)
                    /\ \A j \in ExactFmtps(o, pt) : codec \in {"H264", "H265", "OPUS"} =>
                        Contains(a.attrs, o.attrs[j])
                    /\ \A j \in 2..Len(a.formats) : \E k \in ExactFmtps(o, a.formats[j]) :
                        o.attrs[k].apt = pt
                    /\ \A j \in DOMAIN a.attrs : a.attrs[j].pt \in {a.formats[k] : k \in DOMAIN a.formats}
==============================================================================
