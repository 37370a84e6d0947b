\* Offer/answer between two tiny-sip user agents, and offers from peers.
CONSTANTS
    OfferCaps <- MCOfferCaps
    AnswerCaps <- MCAnswerCaps
    PeerOffers <- MCPeerOffers
    LocalIPs <- MCLocalIPs
    Ports <- MCPorts
    PeerSDPs <- MCPeerSDPs
SPECIFICATION MCSpec
\* One exchange ends: negotiated, or answered when the offer came from a peer.
CHECK_DEADLOCK FALSE
INVARIANTS
    OffererSendsAnswersPT
