------------------------------ MODULE IceServers ------------------------------
(***************************************************************************)
(* The list of ICE servers a session is started with (app_common.c): the   *)
(* default STUN server of the region, then the servers that the service    *)
(* has named, as far as there is room and their URIs are understood.       *)
(*                                                                         *)
(* A URI is a record of its parts: the scheme; the length of the host; the *)
(* port after the second colon, whose kind is "absent", "word" (no digit   *)
(* comes first) or "digits"; and what follows from the question mark on.   *)
(***************************************************************************)
EXTENDS Naturals, Sequences, SequencesExt

CONSTANTS
    MaxServers,   \* ICE_CONTROLLER_MAX_ICE_SERVER_COUNT
    UrlMax,       \* ICE_CONTROLLER_ICE_SERVER_URL_MAX_LENGTH
    CredentialMax,\* ..._USERNAME_MAX_LENGTH and ..._PASSWORD_MAX_LENGTH
    PortMax,      \* UINT16_MAX
    UlMod         \* 2^32

ASSUME IceServerConstants ==
    /\ MaxServers \in Nat \ {0} /\ UrlMax \in Nat /\ CredentialMax \in Nat
    /\ PortMax \in Nat /\ UlMod \in Nat /\ PortMax < UlMod

NoTail == ""
\* strncmp compares as many characters as the tail has, so a prefix is enough.
UdpTails == {"?", "?transport=", "?transport=udp"}
TcpTails == {"?transport=tcp"}

\* StringUtils_ConvertStringToUl: digits are read up to the first other character,
\* and the sum is kept in 32 bits; a text without characters has the value 0.
PortNumber(port) == port.value % UlMod
PortAccepted(port) == port.kind = "digits" /\ PortNumber(port) <= PortMax

Transport(uri) ==
    CASE uri.scheme = "stun" -> "unset"
      [] uri.scheme # "stun" /\ uri.tail \in UdpTails -> "udp"
      [] OTHER -> "tcp"

\* ParseIceServerUri.  A STUN URI needs a tail as well.
UriAccepted(uri) ==
    /\ uri.scheme \in {"stun", "turn", "turns"}
    /\ uri.host < UrlMax
    /\ PortAccepted(uri.port)
    /\ uri.tail # NoTail
    /\ uri.scheme # "stun" => uri.tail \in UdpTails \cup TcpTails

Server(i, uri) ==
    [type |-> uri.scheme, transport |-> Transport(uri), port |-> PortNumber(uri.port),
     credentials |-> i, name |-> uri.name]

DefaultServer(region) ==
    [type |-> "stun", transport |-> "udp", port |-> 443 % UlMod, credentials |-> 0, name |-> region]

CredentialsFit(config) == config.user <= CredentialMax /\ config.password <= CredentialMax

\* Mutant: a URI that cannot be parsed ends its configuration.
AddConfig_GivesUp(list, i, config) ==
    IF ~CredentialsFit(config) THEN list
    ELSE FoldLeft(LAMBDA l, j :
                      IF Len(l) < MaxServers /\ \A k \in 1..j : UriAccepted(config.uris[k])
                      THEN Append(l, Server(i, config.uris[j])) ELSE l,
                  list, [j \in DOMAIN config.uris |-> j])

\* The URIs of one configuration; one that cannot be parsed leaves its slot to the next.
AddConfig(list, i, config) ==
    IF ~CredentialsFit(config) THEN list
    ELSE FoldLeft(LAMBDA l, uri :
                      IF Len(l) < MaxServers /\ UriAccepted(uri) THEN Append(l, Server(i, uri)) ELSE l,
                  list, config.uris)

\* GetIceServerList.
GetIceServerList(region, configs) ==
    FoldLeftDomain(LAMBDA l, i : AddConfig(l, i, configs[i]), <<DefaultServer(region)>>, configs)
==============================================================================
