--------------------------- MODULE SDPNegotiation ---------------------------
(***************************************************************************)
(* The RFC 3264 offer/answer negotiator of src/tinysip/sdp.py:             *)
(* SDPBuilder.build_offer, SDPParser.parse, SDPBuilder.build_answer and     *)
(* AdvancedSDPNegotiator.negotiate_from_offer_answer, with one exchange     *)
(* between an offerer and an answerer as the state machine that drives     *)
(* them.                                                                   *)
(*                                                                         *)
(* An SDP body is a sequence of lines.  A line is kept at the level the    *)
(* parser tells apart: a connection (c=), a media line (m=), a direction   *)
(* attribute, a=rtcp-mux and a=rtpmap.  The v=, o=, s= and t= lines, fmtp *)
(* parameters and profiles carry no control and are left out.  A codec is  *)
(* its key (name lowercased, clock, channels), written as one name.        *)
(***************************************************************************)
EXTENDS Naturals, Sequences, SequencesExt, TLC

CONSTANTS
    OfferCaps,   \* SessionCapability values the offerer may use
    AnswerCaps,  \* SessionCapability values the answerer may use
    PeerOffers   \* offers written by other user agents (sequences of lines)

NONE == "NONE"
NoCap == [media |-> "none"]       \* an absent MediaCapability
NoSession   == [ip |-> "none", audio |-> NoCap, video |-> NoCap]
PeerSession == [ip |-> "peer", audio |-> NoCap, video |-> NoCap]
TE == "telephone-event"          \* ("telephone-event", 8000, 1)

\* The codecs AdvancedSDPNegotiator configures with a static payload type.
StaticPT == ("pcmu" :> 0) @@ ("pcma" :> 8)
\* build_answer's static_map for offered formats that have no rtpmap.
StaticMap == (0 :> "pcmu") @@ (8 :> "pcma")
FirstDynamicPT == 96

CLine(a)             == [t |-> "c", addr |-> a]
MLine(med, p, fmts)  == [t |-> "m", media |-> med, port |-> p, fmts |-> fmts]
DirLine(d)           == [t |-> "dir", dir |-> d]
MuxLine              == [t |-> "mux"]
RtpmapLine(pt, c)    == [t |-> "rtpmap", pt |-> pt, codec |-> c]

VARIABLES
    phase,      \* "idle", "offered", "answered" or "negotiated"
    offer,      \* the offer's lines
    offerCap,   \* the offerer's SessionCapability (PeerSession for a peer)
    answer,     \* the answer's lines
    answerCap,  \* the answerer's SessionCapability
    result      \* negotiate_from_offer_answer's list of NegotiatedMedia

vars == <<phase, offer, offerCap, answer, answerCap, result>>

-----------------------------------------------------------------------------
(***************************************************************************)
(* SDPParser.parse.  `media` holds every block opened so far; the code's   *)
(* current_md is its last element.  An a= line before the first m= is      *)
(* session level (only a direction is kept); a c= line sets the session    *)
(* connection wherever it appears.                                         *)
(***************************************************************************)
EmptyParse == [conn |-> NONE, sdir |-> NONE, media |-> <<>>]

NewMediaDesc(ln) ==
    [media |-> ln.media, port |-> ln.port, fmts |-> ln.fmts, conn |-> NONE,
     dir |-> NONE, rtpmap |-> <<>>, mux |-> FALSE]

\* A dict assignment d[pt] = c on an rtpmap kept as a sequence of <<pt, c>>
\* in insertion order.
PutRtpmap(r, pt, c) ==
    LET i == SelectInSeq(r, LAMBDA e : e[1] = pt)
    IN IF i = 0 THEN Append(r, <<pt, c>>) ELSE [r EXCEPT ![i] = <<pt, c>>]

RtpmapPTs(r) == {e[1] : e \in ToSet(r)}
RtpmapCodecsOf(r) == {e[2] : e \in ToSet(r)}
RtpmapCodec(r, pt) == (CHOOSE e \in ToSet(r) : e[1] = pt)[2]

UpdateCurrent(ps, F(_)) ==
    [ps EXCEPT !.media[Len(ps.media)] = F(@)]

ParseLine(ps, ln) ==
    CASE ln.t = "c" -> [ps EXCEPT !.conn = ln.addr]
      [] ln.t = "m" -> [ps EXCEPT !.media = Append(@, NewMediaDesc(ln))]
      [] ln.t = "dir" /\ ps.media = <<>> -> [ps EXCEPT !.sdir = ln.dir]
      [] ln.t = "dir" /\ ps.media # <<>> ->
            UpdateCurrent(ps, LAMBDA md : [md EXCEPT !.dir = ln.dir])
      [] ln.t = "mux" /\ ps.media # <<>> ->
            UpdateCurrent(ps, LAMBDA md : [md EXCEPT !.mux = TRUE])
      [] ln.t = "rtpmap" /\ ps.media # <<>> ->
            UpdateCurrent(ps, LAMBDA md :
                [md EXCEPT !.rtpmap = PutRtpmap(@, ln.pt, ln.codec)])
      [] OTHER -> ps

\* The parse, then the defaults: direction from the media, else the session,
\* else sendrecv; connection from the media, else the session.
Parse(lines) ==
    LET ps == FoldLeft(ParseLine, EmptyParse, lines)
        Fill(md) ==
            [md EXCEPT !.dir = IF @ # NONE THEN @
                               ELSE IF ps.sdir # NONE THEN ps.sdir ELSE "sendrecv",
                       !.conn = IF @ # NONE THEN @ ELSE ps.conn]
    IN [conn |-> ps.conn, media |-> [i \in DOMAIN ps.media |-> Fill(ps.media[i])]]

-----------------------------------------------------------------------------
(***************************************************************************)
(* SDPBuilder.build_offer.  Payload types: a static codec keeps its own,   *)
(* telephone-event takes the preferred PT, any other codec takes the next  *)
(* PT from 96 and skips the preferred one.                                 *)
(***************************************************************************)
AllocPT(st, c, pref) ==
    IF c \in DOMAIN StaticPT THEN [st EXCEPT !.pts = Append(@, StaticPT[c])]
    ELSE IF c = TE THEN [st EXCEPT !.pts = Append(@, pref)]
    ELSE LET p == IF st.next = pref THEN st.next + 1 ELSE st.next
         IN [pts |-> Append(st.pts, p), next |-> p + 1]

OfferPTs(mc) ==
    FoldLeft(LAMBDA st, c : AllocPT(st, c, mc.tePref),
             [pts |-> <<>>, next |-> FirstDynamicPT], mc.codecs).pts

\* The capabilities of a session in the order build_offer visits them.
MediaCaps(cap) == SelectSeq(<<cap.audio, cap.video>>, LAMBDA mc : mc.media # "none")

\* Mutant: a=rtcp-mux written before the m-line.
OfferMediaMuxFirst(mc) ==
    LET pts == OfferPTs(mc)
    IN  (IF mc.mux THEN <<MuxLine>> ELSE <<>>)
        \o <<MLine(mc.media, mc.port, pts), DirLine(mc.dir)>>
        \o [i \in 1..Len(pts) |-> RtpmapLine(pts[i], mc.codecs[i])]

OfferMedia(mc) ==
    LET pts == OfferPTs(mc)
    IN  <<MLine(mc.media, mc.port, pts), DirLine(mc.dir)>>
        \o (IF mc.mux THEN <<MuxLine>> ELSE <<>>)
        \o [i \in 1..Len(pts) |-> RtpmapLine(pts[i], mc.codecs[i])]

BuildOffer(cap) ==
    <<CLine(cap.ip)>>
    \o FlattenSeq([i \in 1..Len(MediaCaps(cap)) |-> OfferMedia(MediaCaps(cap)[i])])

-----------------------------------------------------------------------------
(***************************************************************************)
(* SDPBuilder.build_answer.                                                *)
(***************************************************************************)
\* The local capability build_answer selects for an offered media type.
AnswerCapFor(cap, med) ==
    IF med = "audio" THEN cap.audio ELSE IF med = "video" THEN cap.video ELSE NoCap

\* remote_codecs: the offered formats with an rtpmap or a known static PT,
\* as <<pt, codec>> in m-line order.
RemoteCodecs(md) ==
    LET known == SelectSeq(md.fmts, LAMBDA pt : pt \in RtpmapPTs(md.rtpmap)
                                                 \/ pt \in DOMAIN StaticMap)
    IN [i \in DOMAIN known |->
          <<known[i], IF known[i] \in RtpmapPTs(md.rtpmap)
                        THEN RtpmapCodec(md.rtpmap, known[i])
                        ELSE StaticMap[known[i]]>>]

\* remote_codecs.sort(key=local_order.get(key, 9999)): a stable sort, so
\* the remote codecs of each local rank keep their offered order.
SortByLocalOrder(rc, codecs) ==
    LET Rank(e) == IF \E i \in DOMAIN codecs : codecs[i] = e[2]
                     THEN CHOOSE i \in DOMAIN codecs : codecs[i] = e[2]
                     ELSE Len(codecs) + 1
    IN FlattenSeq([r \in 1..Len(codecs) + 1 |->
                     SelectSeq(rc, LAMBDA e : Rank(e) = r)])

\* RFC 3264 6.1 as the code writes it.
AnswerDir(offered, localDir) ==
    CASE offered = "sendonly" -> "recvonly"
      [] offered = "recvonly" -> "sendonly"
      [] offered = "inactive" -> "inactive"
      [] OTHER -> localDir

\* One regular codec of the sorted remote list: a static codec answers with
\* its static PT, a dynamic one with the next PT from 96 (skipping the
\* telephone-event PT); a PT already listed is not repeated.
AcceptCodec(st, e, mc) ==
    IF e[2] \notin ToSet(mc.codecs) \/ e[2] = TE THEN st
    ELSE LET dyn  == e[2] \notin DOMAIN StaticPT
             p    == IF st.next = mc.tePref THEN st.next + 1 ELSE st.next
             apt  == IF dyn THEN p ELSE StaticPT[e[2]]
             next == IF dyn THEN p + 1 ELSE st.next
         IN IF apt \in ToSet(st.fmts)
              THEN [st EXCEPT !.next = next]
              ELSE [fmts |-> Append(st.fmts, apt),
                    maps |-> Append(st.maps, RtpmapLine(apt, e[2])),
                    next |-> next]

\* Telephone-event first when both sides have it, then the other codecs.
AcceptedFormats(md, mc) ==
    LET rc == SortByLocalOrder(RemoteCodecs(md), mc.codecs)
        te == TE \in ToSet(mc.codecs) /\ \E i \in DOMAIN rc : rc[i][2] = TE
        st0 == IF te THEN [fmts |-> <<mc.tePref>>,
                           maps |-> <<RtpmapLine(mc.tePref, TE)>>,
                           next |-> FirstDynamicPT]
                     ELSE [fmts |-> <<>>, maps |-> <<>>, next |-> FirstDynamicPT]
    IN FoldLeft(LAMBDA st, e : AcceptCodec(st, e, mc), st0, rc)

\* Mutant: rtcp-mux answered from the local capability alone.
AnswerMediaMuxLocal(md, cap) ==
    LET mc == AnswerCapFor(cap, md.media)
        acc == AcceptedFormats(md, mc)
    IN IF mc.media = "none" THEN <<MLine(md.media, 0, md.fmts)>>
       ELSE IF acc.fmts = <<>> THEN <<MLine(md.media, 0, md.fmts)>>
       ELSE <<MLine(md.media, mc.port, acc.fmts), DirLine(AnswerDir(md.dir, mc.dir))>>
            \o (IF mc.mux THEN <<MuxLine>> ELSE <<>>)
            \o acc.maps

\* The m-line block answering one offered media: rejected with port 0 and
\* the offered formats, or accepted with the local port.
AnswerMedia(md, cap) ==
    LET mc == AnswerCapFor(cap, md.media)
        acc == AcceptedFormats(md, mc)
    IN IF mc.media = "none" THEN <<MLine(md.media, 0, md.fmts)>>
       ELSE IF acc.fmts = <<>> THEN <<MLine(md.media, 0, md.fmts)>>
       ELSE <<MLine(md.media, mc.port, acc.fmts), DirLine(AnswerDir(md.dir, mc.dir))>>
            \o (IF mc.mux /\ md.mux THEN <<MuxLine>> ELSE <<>>)
            \o acc.maps

BuildAnswer(off, cap) ==
    <<CLine(cap.ip)>>
    \o FlattenSeq([i \in 1..Len(off.media) |-> AnswerMedia(off.media[i], cap)])

-----------------------------------------------------------------------------
(***************************************************************************)
(* AdvancedSDPNegotiator.negotiate_from_offer_answer: the offerer pairs    *)
(* each m-line of its own offer with the answer's m-line at the same       *)
(* index.                                                                  *)
(***************************************************************************)
NegotiateCapFor(cap, med) == IF med = "audio" THEN cap.audio ELSE cap.video

\* send_pt: the first PT of our offer's rtpmap with the codec, else the
\* codec's static PT; with neither the codec is skipped.
HasSendPT(mo, c) == c \in RtpmapCodecsOf(mo.rtpmap) \cup DOMAIN StaticPT

SendPT(mo, c) ==
    LET i == SelectInSeq(mo.rtpmap, LAMBDA e : e[2] = c)
    IN IF i # 0 THEN mo.rtpmap[i][1] ELSE StaticPT[c]

NegotiatedFormats(mo, ma, mc) ==
    LET usable == SelectSeq(ma.rtpmap, LAMBDA e : /\ e[2] \in ToSet(mc.codecs)
                                                  /\ HasSendPT(mo, e[2]))
    IN [i \in DOMAIN usable |->
          [recv_pt |-> usable[i][1], send_pt |-> SendPT(mo, usable[i][2]),
           codec |-> usable[i][2]]]

\* Mutant: a rejected m-line (port 0) is not skipped.
NegotiateKeepsRejected(off, ans, cap) ==
    LET Kept(i) == /\ i <= Len(ans.media)
                   /\ NegotiateCapFor(cap, off.media[i].media).media # "none"
        idx == SelectSeq([i \in 1..Len(off.media) |-> i], Kept)
    IN [k \in DOMAIN idx |->
          LET mo == off.media[idx[k]]
              ma == ans.media[idx[k]]
          IN [media |-> mo.media, remote_addr |-> mo.conn,
              remote_port |-> ma.port, direction |-> ma.dir,
              rtcp_mux |-> ma.mux /\ mo.mux,
              formats |-> NegotiatedFormats(mo, ma, NegotiateCapFor(cap, mo.media))]]

Negotiate(off, ans, cap) ==
    LET Kept(i) == /\ i <= Len(ans.media)
                   /\ ans.media[i].port # 0
                   /\ NegotiateCapFor(cap, off.media[i].media).media # "none"
        idx == SelectSeq([i \in 1..Len(off.media) |-> i], Kept)
    IN [k \in DOMAIN idx |->
          LET mo == off.media[idx[k]]
              ma == ans.media[idx[k]]
          IN [media |-> mo.media, remote_addr |-> mo.conn,
              remote_port |-> ma.port, direction |-> ma.dir,
              rtcp_mux |-> ma.mux /\ mo.mux,
              formats |-> NegotiatedFormats(mo, ma, NegotiateCapFor(cap, mo.media))]]

-----------------------------------------------------------------------------
(***************************************************************************)
(* One exchange.  The offer is built by create_offer/build_offer from one  *)
(* of the offerer's capabilities, or written by another user agent; the    *)
(* answerer parses it and builds its answer (create_answer); the offerer   *)
(* parses its own offer and the answer and negotiates.                     *)
(***************************************************************************)
CreateOffer ==
    /\ phase = "idle"
    /\ \E cap \in OfferCaps : offer' = BuildOffer(cap) /\ offerCap' = cap
    /\ phase' = "offered"
    /\ UNCHANGED <<answer, answerCap, result>>

ReceivePeerOffer ==
    /\ phase = "idle"
    /\ \E o \in PeerOffers : offer' = o
    /\ offerCap' = PeerSession
    /\ phase' = "offered"
    /\ UNCHANGED <<answer, answerCap, result>>

CreateAnswer ==
    /\ phase = "offered"
    /\ \E cap \in AnswerCaps : answer' = BuildAnswer(Parse(offer), cap) /\ answerCap' = cap
    /\ phase' = "answered"
    /\ UNCHANGED <<offer, offerCap, result>>

NegotiateAnswer ==
    /\ phase = "answered"
    /\ offerCap # PeerSession
    /\ result' = Negotiate(Parse(offer), Parse(answer), offerCap)
    /\ phase' = "negotiated"
    /\ UNCHANGED <<offer, offerCap, answer, answerCap>>

Init ==
    /\ phase = "idle"
    /\ offer = <<>> /\ answer = <<>> /\ result = <<>>
    /\ offerCap = NoSession /\ answerCap = NoSession

Next == CreateOffer \/ ReceivePeerOffer \/ CreateAnswer \/ NegotiateAnswer

Spec == Init /\ [][Next]_vars

-----------------------------------------------------------------------------
\* The codecs an offered m-line names: through its rtpmap, or for a format
\* without rtpmap through the static PTs 0 and 8.
OfferedCodecs(md) ==
    {IF pt \in RtpmapPTs(md.rtpmap) THEN RtpmapCodec(md.rtpmap, pt) ELSE StaticMap[pt] :
        pt \in {q \in ToSet(md.fmts) : q \in RtpmapPTs(md.rtpmap) \cup DOMAIN StaticMap}}


(***************************************************************************)
(* Round trip (spec.md, round-trip laws): parsing an offer built by        *)
(* build_offer gives back its media in order, each with the capability's   *)
(* direction and rtcp-mux flag, an rtpmap for every format in m-line order *)
(* and the codecs in the capability's order.                               *)
(***************************************************************************)
OfferRoundTrip ==
    phase # "idle" /\ offerCap # PeerSession =>
        LET p   == Parse(offer)
            mcs == MediaCaps(offerCap)
        IN /\ Len(p.media) = Len(mcs)
           /\ \A i \in DOMAIN mcs :
                 LET md == p.media[i] IN
                 /\ md.media = mcs[i].media
                 /\ md.dir = mcs[i].dir
                 /\ md.mux = mcs[i].mux
                 /\ [j \in DOMAIN md.rtpmap |-> md.rtpmap[j][1]] = md.fmts
                 /\ [j \in DOMAIN md.rtpmap |-> md.rtpmap[j][2]] = mcs[i].codecs

(***************************************************************************)
(* The answer obeys spec.md 4.2 (RFC 3264 6) for every offered m-line, in  *)
(* order: it is rejected with port 0 and the offered formats exactly when  *)
(* the answerer has no capability for the media or no codec in common;     *)
(* otherwise it carries exactly the common codecs, those other than        *)
(* telephone-event in the answerer's order of preference, the mapped       *)
(* direction, and rtcp-mux iff both sides advertise it.                    *)
(***************************************************************************)
MappedDirection(offered, localDir) ==
    IF offered = "sendrecv" THEN localDir
    ELSE ("sendonly" :> "recvonly" @@ "recvonly" :> "sendonly"
          @@ "inactive" :> "inactive")[offered]

PreferenceOrdered(codecs, pref) ==
    \A i, j \in DOMAIN codecs :
        i < j => \A a, b \in DOMAIN pref :
                    pref[a] = codecs[i] /\ pref[b] = codecs[j] => a < b

AnswerFollowsOffer ==
    phase \in {"answered", "negotiated"} =>
        LET o == Parse(offer)
            a == Parse(answer)
        IN /\ Len(a.media) = Len(o.media)
           /\ \A i \in DOMAIN o.media :
                LET mc     == AnswerCapFor(answerCap, o.media[i].media)
                    common == IF mc.media = "none" THEN {}
                              ELSE OfferedCodecs(o.media[i]) \cap ToSet(mc.codecs)
                    am     == a.media[i]
                    kept   == SelectSeq([j \in DOMAIN am.rtpmap |-> am.rtpmap[j][2]],
                                        LAMBDA c : c # TE)
                IN /\ am.media = o.media[i].media
                   /\ (am.port = 0) <=> (common = {})
                   /\ am.port = 0 => am.fmts = o.media[i].fmts
                   /\ am.port # 0 =>
                        /\ RtpmapCodecsOf(am.rtpmap) = common
                        /\ PreferenceOrdered(kept, mc.codecs)
                        /\ am.dir = MappedDirection(o.media[i].dir, mc.dir)
                        /\ am.mux = (mc.mux /\ o.media[i].mux)

(***************************************************************************)
(* End to end, between two tiny-sip user agents: for every media both      *)
(* sides support, negotiate_from_offer_answer yields exactly the codecs    *)
(* both capabilities list (and nothing for the others), each with a        *)
(* receive PT the answer maps to it and a send PT the offer maps to it.    *)
(***************************************************************************)
NegotiatedCodecsShared ==
    phase = "negotiated" =>
        LET shared(m) == ToSet(AnswerCapFor(offerCap, m).codecs)
                         \cap ToSet(AnswerCapFor(answerCap, m).codecs)
            o == Parse(offer)
            a == Parse(answer)
            both == {m \in {"audio", "video"} :
                       AnswerCapFor(offerCap, m).media # "none"
                       /\ AnswerCapFor(answerCap, m).media # "none"
                       /\ shared(m) # {}}
        IN /\ {result[k].media : k \in DOMAIN result} = both
           /\ \A k \in DOMAIN result :
                LET i == CHOOSE j \in DOMAIN o.media : o.media[j].media = result[k].media
                IN /\ {f.codec : f \in ToSet(result[k].formats)} = shared(result[k].media)
                   /\ \A f \in ToSet(result[k].formats) :
                        /\ <<f.recv_pt, f.codec>> \in ToSet(a.media[i].rtpmap)
                        /\ <<f.send_pt, f.codec>> \in ToSet(o.media[i].rtpmap)

(***************************************************************************)
(* RFC 3264 5.1/6.1, and build_answer's own comment ("in the answer we     *)
(* announce the PT we want the remote to use when sending to us"): the     *)
(* offerer sends each codec with the PT the answer gives it.               *)
(***************************************************************************)
OffererSendsAnswersPT ==
    phase = "negotiated" =>
        \A k \in DOMAIN result : \A f \in ToSet(result[k].formats) :
            f.send_pt = f.recv_pt

(***************************************************************************)
(* spec.md 4.2, negotiation result: the remote address of a negotiated     *)
(* media is the answerer's connection address (the answer's c= line).     *)
(***************************************************************************)
RemoteAddressIsAnswerers ==
    phase = "negotiated" =>
        \A k \in DOMAIN result : result[k].remote_addr = Parse(answer).conn

=============================================================================
