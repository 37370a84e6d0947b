-------------------------- MODULE MCSDPNegotiation --------------------------
(***************************************************************************)
(* A small instance of SDPNegotiation: two user agents with audio          *)
(* capabilities that differ in codec list, direction and rtcp-mux, with or *)
(* without H.264 video, and two offers as other user agents write them.    *)
(* It also instantiates SDPBasic, the older SDPSession layer.              *)
(***************************************************************************)
EXTENDS SDPNegotiation, SDPBasic

Directions == {"sendrecv", "sendonly", "recvonly", "inactive"}

\* Codec lists in order of preference.  The first is the negotiator's
\* default; the speex/ilbc lists make the two sides' dynamic PTs differ.
AudioLists ==
    { <<"pcmu", "pcma", TE>>, <<"pcma", "pcmu">>,
      <<"speex", "ilbc", TE>>, <<"ilbc", "pcmu", TE>> }

AudioCaps(port) ==
    [media: {"audio"}, dir: Directions, codecs: AudioLists, mux: BOOLEAN,
     tePref: {101}, port: {port}]

VideoCap(port) ==
    [media |-> "video", dir |-> "sendrecv", codecs |-> <<"h264">>,
     mux |-> FALSE, tePref |-> 101, port |-> port]

MCOfferCaps ==
    [ip: {"10.0.0.1"}, audio: AudioCaps(5004), video: {NoCap, VideoCap(5006)}]

MCAnswerCaps ==
    [ip: {"10.0.0.2"}, audio: AudioCaps(6004), video: {NoCap, VideoCap(6006)}]

\* A static PT without rtpmap and a media-level c= line; a session-level
\* direction, two media with their own c= and a media type nobody handles.
MCPeerOffers ==
    { <<CLine("10.0.0.7"), MLine("audio", 7000, <<0, 8, 101>>),
        CLine("10.0.0.8"), RtpmapLine(101, TE)>>,
      <<CLine("10.0.0.7"), DirLine("sendonly"),
        MLine("audio", 7000, <<97, 0>>), RtpmapLine(97, "ilbc"),
        MLine("video", 7002, <<96>>), CLine("10.0.0.9"), RtpmapLine(96, "h264"),
        MLine("application", 7004, <<100>>)>> }

\* For SDPBasic: one local address, two ports, and three bodies written by
\* other agents: one with a session attribute, an unsupported static PT
\* before a supported one, a video media and a bandwidth line; one with a
\* ttl, a media-level c= line and an application media; one whose only
\* media type SDPMediaType does not know.
MCLocalIPs == {"10.0.0.1"}
MCPorts == {5004, 6004}
MCPeerSDPs ==
    { <<[t |-> "v", version |-> 0],
        [t |-> "o", user |-> "bob", id |-> "1", ver |-> "2", addr |-> "10.0.0.7"],
        [t |-> "s", name |-> "call"],
        [t |-> "c", addr |-> "10.0.0.7", ttl |-> NoTTL],
        [t |-> "b"],
        [t |-> "t", start |-> 0, stop |-> 0],
        [t |-> "a", name |-> "sendrecv", value |-> <<>>],
        [t |-> "m", type |-> "audio", port |-> 7000, proto |-> "RTP/AVP", fmts |-> <<18, 8, 0>>],
        [t |-> "a", name |-> "rtpmap", value |-> <<18, "G729", 8000>>],
        [t |-> "m", type |-> "video", port |-> 7002, proto |-> "RTP/AVP", fmts |-> <<96, 97>>]>>,
      <<[t |-> "v", version |-> 0],
        [t |-> "c", addr |-> "10.0.0.7", ttl |-> 16],
        [t |-> "m", type |-> "audio", port |-> 7000, proto |-> "RTP/AVP", fmts |-> <<8>>],
        [t |-> "c", addr |-> "10.0.0.8", ttl |-> NoTTL],
        [t |-> "m", type |-> "application", port |-> 7004, proto |-> "UDP", fmts |-> <<100>>],
        [t |-> "m", type |-> "video", port |-> 7002, proto |-> "RTP/AVP", fmts |-> <<31>>]>>,
      <<[t |-> "m", type |-> "text", port |-> 7006, proto |-> "RTP/AVP", fmts |-> <<98>>]>> }

\* The SDPNegotiator exchange and the basic SDPSession exchange run side by
\* side; a step is a step of one of them.
MCInit == Init /\ BasicInit

MCNext ==
    \/ Next /\ UNCHANGED basicVars
    \/ BasicNext /\ UNCHANGED vars

MCSpec == MCInit /\ [][MCNext]_<<vars, basicVars>>

=============================================================================
