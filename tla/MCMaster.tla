------------------------------- MODULE MCMaster -------------------------------
(* Instances of Master for TLC: configurations whose URIs fail for every reason, and *)
(* descriptions of every kind.                                                       *)
EXTENDS Master, TLC

Uri(name, scheme, host, port, tail) ==
    [name |-> name, scheme |-> scheme, host |-> host, port |-> port, tail |-> tail]
Digits(n) == [kind |-> "digits", value |-> n]
NoNumber(kind) == [kind |-> kind, value |-> 0]
Good == Uri("a", "turn", 1, Digits(3), "?transport=udp")
Tcp == Uri("b", "turns", 1, Digits(3), "?transport=tcp")
Stun == Uri("c", "stun", 1, Digits(3), NoTail)
StunTail == Uri("d", "stun", 1, Digits(0), "?x")
Wrapped == Uri("e", "turn", 1, Digits(17), "?")
BigPort == Uri("f", "turn", 1, Digits(4), "?transport=udp")
LongHost == Uri("g", "turn", 2, Digits(3), "?transport=udp")
NoPort == Uri("h", "turn", 1, NoNumber("absent"), NoTail)
Word == Uri("i", "turn", 1, NoNumber("word"), "?transport=udp")
Other == Uri("j", "other", 1, Digits(3), "?transport=udp")
BadTail == Uri("k", "turns", 1, Digits(3), "?transport=sctp")

Config(user, password, uris) == [user |-> user, password |-> password, uris |-> uris]
MCConfigLists ==
    {<<>>,
     <<Config(1, 1, <<Stun, Good, Tcp>>), Config(1, 1, <<Wrapped>>)>>,
     <<Config(2, 1, <<Good>>), Config(1, 1, <<NoPort, Word, StunTail, Good>>)>>,
     <<Config(1, 1, <<BigPort, LongHost, Tcp>>), Config(1, 2, <<Good>>), Config(1, 1, <<Wrapped, Good>>)>>,
     <<Config(1, 1, <<Other, BadTail, Good, Tcp, Wrapped, StunTail>>)>>}

Line(kind, formats, attrs, mid, dir) ==
    [kind |-> kind, formats |-> formats, attrs |-> attrs, mid |-> mid, dir |-> dir]
\* The second H264 payload type is the better one, the RTX payload type belongs to the first.
Video(mid, dir) ==
    Line("video", <<96, 97, 98, 100, 102, 103>>,
         <<Rtpmap(96, "H264"), Fmtp(96, {"mode"}, NoPt), Rtpmap(97, "rtx"), Fmtp(97, {}, 96),
           Rtpmap(98, "H264"), Fmtp(98, {"mode", "asymmetry", "profile"}, NoPt),
           Rtpmap(100, "H264"), Fmtp(100, {"asymmetry", "profile"}, NoPt),
           Rtpmap(102, "H265"), Fmtp(103, {}, 102)>>, mid, dir)
VideoRtx(mid, dir) ==
    Line("video", <<96, 98, 99>>,
         <<Rtpmap(96, "VP8"), Rtpmap(98, "H264"), Fmtp(98, {"mode", "profile"}, NoPt),
           Rtpmap(99, "rtx"), Fmtp(99, {}, 98), Rtpmap(102, "H265"), Fmtp(102, {}, NoPt)>>, mid, dir)
PlainVideo == Line("video", <<96, 102>>, <<Rtpmap(96, "H264"), Fmtp(96, {"profile"}, NoPt)>>, NoMid, "none")
Audio(mid, dir) ==
    Line("audio", <<111, 63, 0, 8>>,
         <<Rtpmap(111, "OPUS"), Fmtp(111, {}, NoPt), Rtpmap(63, "rtx"), Fmtp(63, {}, 111),
           Rtpmap(0, "MULAW"), Rtpmap(8, "ALAW")>>, mid, dir)
StaticAudio(formats) == Line("audio", formats, <<>>, NoMid, "recvonly")
PrefixAudio == Line("audio", <<11, 111>>, <<Rtpmap(111, "OPUS"), Fmtp(111, {}, NoPt), Rtpmap(11, "ALAW")>>, 1, "sendonly")
Data(mid) == Line("application", <<>>, <<>>, mid, "none")
Text == Line("text", <<98>>, <<>>, NoMid, "none")

Message(type, lines) == [type |-> type, valid |-> TRUE, lines |-> lines]
MCMessages ==
    {Message("offer", <<Video(0, "recvonly"), Audio(1, "sendrecv"), Data(2)>>),
     Message("offer", <<Audio(7, "sendonly"), VideoRtx(5, "inactive")>>),
     Message("offer", <<VideoRtx(NoMid, "sendrecv"), StaticAudio(<<9, 0, 8>>), Data(NoMid)>>),
     Message("offer", <<PlainVideo, PrefixAudio>>),
     Message("offer", <<Data(3)>>),
     Message("answer", <<VideoRtx(1, "recvonly"), StaticAudio(<<8, 0>>), Text>>),
     Message("candidate", <<>>),
     [type |-> "offer", valid |-> FALSE, lines |-> <<Audio(0, "sendrecv"), Data(1)>>]}
MCBuilds ==
    {[video |-> "H264", audio |-> "OPUS"], [video |-> "H265", audio |-> "MULAW"],
     [video |-> "H264", audio |-> "ALAW"]}
==============================================================================
