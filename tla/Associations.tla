----------------------------- MODULE Associations -----------------------------
(* Datagram associations through a proxy: SOCKS5 with its control stream,    *)
(* Shadowsocks packets with their replay windows, VLESS with a stream for    *)
(* each destination, and the direct socket.                                  *)
EXTENDS Naturals, Sequences, FiniteSets

CONSTANTS
  Sessions,        \* server sessions of a Shadowsocks server, numbered
  MaxId,           \* bound: highest packet identifier
  Width,           \* bits of the replay window
  Targets,         \* destinations
  MaxDestinations, \* MAX_DESTINATIONS
  MaxStreams       \* bound: streams dialled

\* A session is its number, which is not zero, and the window has at least one bit.
ASSUME AssociationsAssumption ==
  Sessions \subseteq Nat \ {0} /\ Width \in Nat \ {0} /\ MaxId \in Nat

VARIABLES
  via,        \* "socks5", "shadowsocks", "vless", "direct"
  assoc,      \* "new", "open", "over"
  control,    \* SOCKS5: the control stream is open
  held,       \* replay windows, the current session first, and what each delivered
  refused,    \* the datagram last refused by its window, if any
  lives,      \* VLESS: destination -> its Live
  links,      \* streams dialled: destination, and whether the reader runs
  sender      \* the owner's send: idle, waiting for a dial, or writing

assocVars == <<via, assoc, control, held, refused, lives, links, sender>>

None == [session |-> 0, id |-> 0]
Idle == [at |-> "idle", target |-> "none"]

AssocInit ==
  /\ via \in {"socks5", "shadowsocks", "vless", "direct"}
  /\ assoc = "new" /\ control = TRUE /\ held = <<>> /\ refused = None
  /\ lives = [t \in {} |-> 0] /\ links = <<>> /\ sender = Idle

\* An address that is no IP refuses a SOCKS5 association; 0.0.0.0 stands for the proxy.
RelayAddress(bound) == IF bound = "unspecified" THEN "proxy" ELSE bound
OpenAssociation ==
  /\ assoc = "new"
  /\ \E bound \in {"unspecified", "ip", "domain"} :
       assoc' = IF via = "socks5" /\ RelayAddress(bound) = "domain" THEN "over" ELSE "open"
  /\ UNCHANGED <<via, control, held, refused, lives, links, sender>>

(* Shadowsocks. *)
Empty == [started |-> FALSE, highest |-> 0, below |-> {}]

\* Window::admit; below holds how far behind the highest the admitted ones are.
Admits(w, id) ==
  \/ ~w.started \/ id > w.highest
  \/ /\ id < w.highest /\ w.highest - id <= Width /\ w.highest - id \notin w.below

Admitted(w, id) ==
  LET gap == id - w.highest IN
  IF ~w.started THEN [w EXCEPT !.started = TRUE, !.highest = id]
  ELSE IF id > w.highest
  THEN [w EXCEPT !.highest = id,
                 !.below = IF gap < Width THEN {b + gap : b \in {c \in @ : c + gap <= Width}} \cup {gap}
                           ELSE {}]
  ELSE [w EXCEPT !.below = @ \cup {w.highest - id}]

\* PacketSource::window: a new session is current, and the older of two is forgotten.
Windows(session) ==
  IF \E i \in 1..Len(held) : held[i].session = session THEN held
  ELSE <<[session |-> session, window |-> Empty, given |-> [id \in 0..MaxId |-> 0]]>> \o SubSeq(held, 1, IF held = <<>> THEN 0 ELSE 1)
Place(windows, session) == CHOOSE i \in 1..Len(windows) : windows[i].session = session

\* What the cipher opens, and what of it is a fresh reply to this client.
Opens(kind) == kind \notin {"short", "forged"}
Validates(kind) == kind \notin {"stale", "other client"}

\* A datagram, late or repeated; only one that is authentic and valid moves a window.
ReceiveUnchecked(session, id, kind) ==
  /\ via = "shadowsocks" /\ assoc = "open" /\ Opens(kind)
  /\ LET windows == Windows(session)
         at == Place(windows, session)
         w == windows[at].window
     IN IF Admits(w, id)
        THEN /\ held' = [windows EXCEPT ![at].window = Admitted(w, id),
                           ![at].given[id] = IF @ < 2 /\ Validates(kind) THEN @ + 1 ELSE @]
             /\ refused' = None
        ELSE /\ held' = windows /\ refused' = [session |-> session, id |-> id]
  /\ UNCHANGED <<via, assoc, control, lives, links, sender>>

Receive(session, id, kind) ==
  /\ via = "shadowsocks" /\ assoc = "open" /\ Opens(kind) /\ Validates(kind)
  /\ LET windows == Windows(session)
         at == Place(windows, session)
         w == windows[at].window
     IN IF Admits(w, id)
        THEN /\ held' = [windows EXCEPT ![at].window = Admitted(w, id),
                                         ![at].given[id] = IF @ < 2 THEN @ + 1 ELSE @]
             /\ refused' = None
        ELSE /\ held' = windows /\ refused' = [session |-> session, id |-> id]
  /\ UNCHANGED <<via, assoc, control, lives, links, sender>>

(* SOCKS5. *)
ControlCloses ==
  /\ via = "socks5" /\ assoc = "open" /\ control /\ control' = FALSE
  /\ UNCHANGED <<via, assoc, held, refused, lives, links, sender>>

ControlEnded ==
  /\ via = "socks5" /\ assoc = "open" /\ ~control /\ assoc' = "over"
  /\ UNCHANGED <<via, control, held, refused, lives, links, sender>>

\* A relayed datagram; one that is fragmented or unreadable ends the association.
RelayReceives ==
  /\ via = "socks5" /\ assoc = "open"
  /\ \E readable \in BOOLEAN : assoc' = IF readable THEN assoc ELSE "over"
  /\ UNCHANGED <<via, control, held, refused, lives, links, sender>>

\* The direct socket: only its own error ends it.
DirectReceives ==
  /\ via = "direct" /\ assoc = "open"
  /\ \E fails \in BOOLEAN : assoc' = IF fails THEN "over" ELSE assoc
  /\ UNCHANGED <<via, control, held, refused, lives, links, sender>>

(* VLESS. *)
Live(at, stream) == [at |-> at, stream |-> stream]
Alive(l) == l.at = "up" /\ links[l.stream].reading

\* At the limit the destinations whose stream has ended are forgotten.
RetainLive == [t \in {u \in DOMAIN lives : lives[u].at = "up" => Alive(lives[u])} |-> lives[t]]
Remembered == IF Cardinality(DOMAIN lives) >= MaxDestinations THEN RetainLive ELSE lives

\* stream(): the destination's stream, or a dial on a task of its own.
StreamTo(t) ==
  LET known == Remembered
      l == IF t \in DOMAIN known THEN known[t] ELSE Live("down", 0)
  IN /\ via = "vless" /\ assoc = "open" /\ sender.at = "idle"
     /\ Len(links) < MaxStreams
     /\ lives' = [u \in DOMAIN known \cup {t} |->
                    IF u # t THEN known[u]
                    ELSE IF Alive(l) \/ l.at = "opening" THEN l ELSE Live("opening", 0)]
     /\ sender' = [at |-> IF Alive(l) THEN "writing" ELSE "waiting", target |-> t]
  /\ UNCHANGED <<via, assoc, control, held, refused, links>>

Dialled(t) ==
  /\ t \in DOMAIN lives /\ lives[t].at = "opening"
  /\ \/ /\ links' = Append(links, [target |-> t, reading |-> TRUE])
        /\ lives' = [lives EXCEPT ![t] = Live("up", Len(links) + 1)]
        /\ sender' = IF sender = [at |-> "waiting", target |-> t] THEN [sender EXCEPT !.at = "writing"] ELSE sender
     \/ /\ lives' = [lives EXCEPT ![t] = Live("down", 0)] /\ UNCHANGED links
        /\ sender' = IF sender = [at |-> "waiting", target |-> t] THEN Idle ELSE sender
  /\ UNCHANGED <<via, assoc, control, held, refused>>

\* The frame goes out whole, or the write fails and the datagram is dropped.
WriteFrame ==
  /\ sender.at = "writing" /\ sender' = Idle
  /\ UNCHANGED <<via, assoc, control, held, refused, lives, links>>

\* read_datagrams: the stream ends, or the association does.
ReaderEnds(i) ==
  /\ links[i].reading /\ assoc = "open"
  /\ links' = [links EXCEPT ![i].reading = FALSE]
  /\ UNCHANGED <<via, assoc, control, held, refused, lives, sender>>

StopsWithStream(i) ==
  /\ links[i].reading /\ assoc = "open"
  /\ links' = [links EXCEPT ![i].reading = FALSE]
  /\ UNCHANGED <<via, assoc, control, held, refused, lives, sender>>

ReaderStops(i) ==
  /\ links[i].reading /\ assoc = "over"
  /\ links' = [links EXCEPT ![i].reading = FALSE]
  /\ UNCHANGED <<via, assoc, control, held, refused, lives, sender>>

\* Its owner lets go of the association, at the idle timeout or at shutdown.
Dropped ==
  /\ assoc = "open" /\ assoc' = "over" /\ sender' = Idle
  /\ UNCHANGED <<via, control, held, refused, lives, links>>

AssocNext ==
  \/ OpenAssociation \/ ControlCloses \/ ControlEnded \/ RelayReceives \/ DirectReceives \/ WriteFrame \/ Dropped
  \/ \E s \in Sessions, id \in 0..MaxId, kind \in {"good", "short", "forged", "stale", "other client"} :
       Receive(s, id, kind)
  \/ \E t \in Targets : StreamTo(t) \/ Dialled(t)
  \/ \E i \in DOMAIN links : ReaderEnds(i) \/ ReaderStops(i)

(* A dial is bounded by its timeouts, a reader polls its shutdown, and the   *)
(* receive polls the control stream in every call.                           *)
AssocFairness ==
  /\ WF_assocVars(ControlEnded)
  /\ WF_assocVars(\E t \in Targets : Dialled(t))
  /\ WF_assocVars(\E i \in DOMAIN links : ReaderStops(i))

AssocSpec == AssocInit /\ [][AssocNext]_assocVars /\ AssocFairness

(* The replay window turns away only what it has to: a datagram it refuses   *)
(* was delivered before or lies further behind than the window is wide. And  *)
(* a destination has one running stream at most: forgetting the ended ones   *)
(* at the limit never forgets a stream that still answers.                   *)
NothingFreshRefused ==
  /\ refused # None =>
       LET h == held[Place(held, refused.session)] IN
       h.given[refused.id] > 0 \/ h.window.highest - refused.id > Width
  /\ \A i, j \in 1..Len(links) :
       i # j /\ links[i].reading /\ links[j].reading => links[i].target # links[j].target

(* When the proxy closes the control stream the association ends, and when   *)
(* an association ends its dials and the readers of its links end too.     *)
AssociationEnds ==
  /\ (assoc = "open" /\ ~control) ~> (assoc = "over")
  /\ (assoc = "over") ~> ((\A i \in 1..Len(links) : ~links[i].reading)
                           /\ (\A t \in DOMAIN lives : lives[t].at # "opening"))
=============================================================================
