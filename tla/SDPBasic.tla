------------------------------ MODULE SDPBasic ------------------------------
(***************************************************************************)
(* The first SDP layer of src/tinysip/sdp.py (lines 1-440): the SDPSession *)
(* and SDPMedia dataclasses with encode and parse, and the SDPNegotiator   *)
(* behind create_basic_audio_offer, whose text client.py puts in every     *)
(* INVITE it sends, and create_basic_audio_answer.                        *)
(*                                                                         *)
(* SDP text is abstracted to a sequence of line records, one per line,    *)
(* holding the fields the line's format string writes; the parser reads   *)
(* them back.  An rtpmap value "<pt> <name>/<rate>" is the triple          *)
(* <<pt, name, rate>>, an attribute without value has value <<>>.          *)
(* time.time() is the single value Now.                                    *)
(***************************************************************************)
EXTENDS Naturals, Sequences, SequencesExt

CONSTANTS
    LocalIPs,   \* local_ip arguments of create_offer/create_answer
    Ports,      \* audio ports of create_offer
    PeerSDPs    \* SDP bodies written by other user agents, as line records

Absent == "absent"
Now == "now"

\* connection_ttl None.  encode tests the ttl for truth, so None and 0 are
\* written alike (no "/ttl"), and 0 stands for both.
NoTTL == 0

\* SDPMediaType: parse raises ValueError on any other media name.
MediaTypes == {"audio", "video", "application", "data", "control"}

\* SDPAttribute(name, value).
Attr(name, value) == [name |-> name, value |-> value]

\* SDPMedia(media_type, port, protocol, formats) with its defaults.
NewMedia(type, port, proto, fmts) ==
    [type |-> type, port |-> port, proto |-> proto, formats |-> fmts,
     attributes |-> <<>>, conn |-> Absent, ttl |-> NoTTL]

\* SDPSession(...) with the dataclass defaults for the fields not given.
NewSession(origin, conn, name) ==
    [version |-> 0, user |-> "-", id |-> Now, ver |-> Now, origin |-> origin,
     name |-> name, conn |-> conn, ttl |-> NoTTL, tstart |-> 0, tstop |-> 0,
     attributes |-> <<>>, media |-> <<>>]

\* SDPMedia.add_format with channels = 1: the PT and its rtpmap.
AddFormat(m, c) ==
    [m EXCEPT !.formats = Append(@, c[1]),
              !.attributes = Append(@, Attr("rtpmap", c))]

\* add_audio_media / add_video_media with a codec list: every format, then
\* set_sendrecv, then the media is appended to the session.
AddMedia(s, type, port, codecs) ==
    [s EXCEPT !.media =
        Append(@, [FoldLeft(AddFormat, NewMedia(type, port, "RTP/AVP", <<>>), codecs)
                     EXCEPT !.attributes = Append(@, Attr("sendrecv", <<>>))])]

-----------------------------------------------------------------------------
(* Encoding *)

\* A c= line; the "/ttl" suffix only when the ttl is set and not 0.
CLineOf(addr, ttl) ==
    [t |-> "c", addr |-> addr, ttl |-> ttl]

ALineOf(a) == [t |-> "a", name |-> a.name, value |-> a.value]

\* Mutant: the media's attributes written before its m= line.
MediaLinesAttrsFirst(m) ==
    [i \in 1..Len(m.attributes) |-> ALineOf(m.attributes[i])]
    \o <<[t |-> "m", type |-> m.type, port |-> m.port, proto |-> m.proto,
         fmts |-> IF m.formats = <<>> THEN <<0>> ELSE m.formats]>>

\* SDPMedia.__str__: the m= line ("0" when there is no format), the
\* media's own c= line if it has an address, its attributes.
MediaLines(m) ==
    <<[t |-> "m", type |-> m.type, port |-> m.port, proto |-> m.proto,
       fmts |-> IF m.formats = <<>> THEN <<0>> ELSE m.formats]>>
    \o (IF m.conn # Absent THEN <<CLineOf(m.conn, m.ttl)>> ELSE <<>>)
    \o [i \in 1..Len(m.attributes) |-> ALineOf(m.attributes[i])]

\* SDPSession.encode.
Encode(s) ==
    <<[t |-> "v", version |-> s.version],
      [t |-> "o", user |-> s.user, id |-> s.id, ver |-> s.ver, addr |-> s.origin],
      [t |-> "s", name |-> s.name],
      CLineOf(s.conn, s.ttl),
      [t |-> "t", start |-> s.tstart, stop |-> s.tstop]>>
    \o [i \in 1..Len(s.attributes) |-> ALineOf(s.attributes[i])]
    \o FlattenSeq([i \in 1..Len(s.media) |-> MediaLines(s.media[i])])

-----------------------------------------------------------------------------
(* Parsing *)

\* One line of SDPSession.parse.  ok becomes FALSE where the code raises.
\* A c= line always sets the session's address, also after an m= line;
\* without "/ttl" it leaves the ttl as it was.  An a= line goes to the last
\* media if there is one, to the session otherwise.  Other lines are skipped.
ParseStep(st, l) ==
    LET s == st.s IN
    CASE l.t = "v" -> [st EXCEPT !.s.version = l.version]
      [] l.t = "o" -> [st EXCEPT !.s.user = l.user, !.s.id = l.id,
                                 !.s.ver = l.ver, !.s.origin = l.addr]
      [] l.t = "s" -> [st EXCEPT !.s.name = l.name]
      [] l.t = "c" -> [st EXCEPT !.s.conn = l.addr,
                                 !.s.ttl = IF l.ttl = NoTTL THEN @ ELSE l.ttl]
      [] l.t = "t" -> [st EXCEPT !.s.tstart = l.start, !.s.tstop = l.stop]
      [] l.t = "m" /\ l.type \notin MediaTypes -> [st EXCEPT !.ok = FALSE]
      [] l.t = "m" /\ l.type \in MediaTypes ->
            [st EXCEPT !.s.media = Append(@, NewMedia(l.type, l.port, l.proto, l.fmts))]
      [] l.t = "a" /\ s.media # <<>> ->
            [st EXCEPT !.s.media[Len(s.media)].attributes =
                          Append(@, Attr(l.name, l.value))]
      [] l.t = "a" /\ s.media = <<>> ->
            [st EXCEPT !.s.attributes = Append(@, Attr(l.name, l.value))]
      [] OTHER -> st

\* SDPSession.parse: [ok |-> FALSE] stands for the ValueError it raises.
SessionParse(lines) ==
    LET r == FoldLeft(LAMBDA st, l : IF st.ok THEN ParseStep(st, l) ELSE st,
                      [ok |-> TRUE,
                       s |-> NewSession("127.0.0.1", "127.0.0.1", "SIP Session")],
                      lines)
    IN IF r.ok THEN r ELSE [ok |-> FALSE, s |-> r.s]

-----------------------------------------------------------------------------
(* SDPNegotiator *)

SupportedAudio == <<<<0, "PCMU", 8000>>, <<8, "PCMA", 8000>>>>
SupportedVideo == <<<<96, "H264", 90000>>>>

\* create_offer: one audio media with both supported codecs.
BasicCreateOffer(ip, port) ==
    AddMedia(NewSession(ip, ip, "TinySIP Offer"), "audio", port, SupportedAudio)

\* _find_compatible_audio_codec / _video_: the first supported codec whose
\* PT the offer lists, as a sequence of zero or one codec.
FindCompatible(supported, offered) ==
    LET found == SelectSeq(supported, LAMBDA c : c[1] \in ToSet(offered))
    IN IF found = <<>> THEN <<>> ELSE <<Head(found)>>

\* Mutant: a supported codec taken whether the offer lists it or not.
BasicAnswerMediaAnyCodec(ans, om) ==
    CASE om.type = "audio" -> AddMedia(ans, "audio", om.port, <<Head(SupportedAudio)>>)
      [] om.type = "video" -> AddMedia(ans, "video", om.port, <<Head(SupportedVideo)>>)
      [] OTHER -> ans

\* create_answer's loop body: an audio or video media with a compatible
\* codec is answered on the offer's port; any other media is dropped.
BasicAnswerMedia(ans, om) ==
    LET codecs == CASE om.type = "audio" -> FindCompatible(SupportedAudio, om.formats)
                    [] om.type = "video" -> FindCompatible(SupportedVideo, om.formats)
                    [] OTHER -> <<>>
    IN IF codecs = <<>> THEN ans ELSE AddMedia(ans, om.type, om.port, codecs)

BasicCreateAnswer(offer, ip) ==
    FoldLeft(BasicAnswerMedia, NewSession(ip, ip, "TinySIP Answer"), offer.media)

\* create_basic_audio_answer: parse the offer text, then answer it.
BasicAnswer(sdp, ip) ==
    LET r == SessionParse(sdp) IN
    IF r.ok THEN [ok |-> TRUE, s |-> BasicCreateAnswer(r.s, ip)] ELSE r

-----------------------------------------------------------------------------
(* The exchange: client.send_invite puts the text of a basic offer in the   *)
(* INVITE it sends; create_basic_audio_answer answers a body it is given,   *)
(* that offer or one written by another agent.                              *)

VARIABLES
    inviteBody,     \* text of the last offer send_invite wrote, <<>> before
    offerSession,   \* the SDPSession that text was encoded from
    answeredBody,   \* the last body create_basic_audio_answer was given
    basicAnswer     \* what it returned ([ok |-> FALSE, ...] when it raised)

basicVars == <<inviteBody, offerSession, answeredBody, basicAnswer>>

BasicInit ==
    /\ inviteBody = <<>>
    /\ offerSession = Absent
    /\ answeredBody = <<>>
    /\ basicAnswer = Absent

\* send_invite without sdp_body nor body: create_basic_audio_offer on the
\* transport's address, then str() of it as the INVITE body.
SendInviteOffer(ip, p) ==
    /\ inviteBody' = Encode(BasicCreateOffer(ip, p))
    /\ offerSession' = BasicCreateOffer(ip, p)
    /\ UNCHANGED <<answeredBody, basicAnswer>>

\* create_basic_audio_answer on a received body.
AnswerOffer(sdp, ip) ==
    /\ answeredBody' = sdp
    /\ basicAnswer' = BasicAnswer(sdp, ip)
    /\ UNCHANGED <<inviteBody, offerSession>>

\* The bodies an answerer can be given: the one this UA sent, and peers'.
Bodies == PeerSDPs \cup (IF inviteBody = <<>> THEN {} ELSE {inviteBody})

BasicNext ==
    \/ \E ip \in LocalIPs, p \in Ports : SendInviteOffer(ip, p)
    \/ \E sdp \in Bodies, ip \in LocalIPs : AnswerOffer(sdp, ip)

-----------------------------------------------------------------------------
(* Properties *)

\* The SDP text send_invite puts in an INVITE (str of
\* create_basic_audio_offer) parses back, with SDPSession.parse as
\* SIPMessage.get_sdp calls it, into the session that was encoded.
BasicOfferRoundTrip ==
    inviteBody # <<>> =>
        SessionParse(inviteBody) = [ok |-> TRUE, s |-> offerSession]

\* The rtpmap codec of an answered media.
RtpmapOf(m) == SelectSeq(m.attributes, LAMBDA a : a.name = "rtpmap")

\* create_basic_audio_answer, for the offer text of this UA and of other
\* agents: every answered media carries one format, a PT the offer listed for
\* a media of the same kind and that the negotiator supports, with the
\* rtpmap of that supported codec; the answered media keep the offer's order.
BasicAnswerAgrees ==
    LET r == SessionParse(answeredBody)
        a == basicAnswer
    IN answeredBody # <<>> /\ r.ok =>
         /\ a.ok
         /\ \E f \in [1..Len(a.s.media) -> 1..Len(r.s.media)] :
              /\ \A i, j \in DOMAIN f : i < j => f[i] < f[j]
              /\ \A i \in DOMAIN f :
                   LET am == a.s.media[i]
                       om == r.s.media[f[i]]
                       sup == IF am.type = "audio" THEN SupportedAudio
                                                   ELSE SupportedVideo
                   IN /\ am.type = om.type
                      /\ Len(am.formats) = 1
                      /\ am.formats[1] \in ToSet(om.formats)
                      /\ RtpmapOf(am) = <<Attr("rtpmap", Head(SelectSeq(sup,
                                            LAMBDA c : c[1] = am.formats[1])))>>

=============================================================================
