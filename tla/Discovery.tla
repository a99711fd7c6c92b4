------------------------------ MODULE Discovery ------------------------------
(***************************************************************************)
(* Which receiver a sender dials: find and list in                         *)
(* linux/crates/od-sender/src/discover.rs, over Bonjour's answers and, when *)
(* there are none, over what the Tailscale peers answer to a probe          *)
(* (tailscale.rs).                                                         *)
(*                                                                         *)
(* A receiver is a number.  Bonjour knows it by its instance name and, in  *)
(* most cases, an id; Tailscale by the name of its peer.  The lists of     *)
(* what was found are sets: their order shows in what is printed, and the  *)
(* first match of a list is any of its matches.                            *)
(***************************************************************************)
EXTENDS Option, Naturals, FiniteSets

CONSTANTS
    MaxReceivers,   \* receivers there are
    Timeout,        \* what run and list wait for answers
    SettleTime,     \* SETTLE_WITHOUT_TO
    MaxPeers,       \* MAX_PEERS
    MaxWait         \* bound: the time that passes

ASSUME DiscoveryAssumption ==
    /\ {MaxReceivers, Timeout, SettleTime, MaxPeers, MaxWait} \subseteq Nat
    /\ None \notin Nat

VARIABLES
    said,           \* history: when a receiver answered Bonjour first
    search          \* find or list

searchVars == <<said, search>>

Receivers == 1 .. MaxReceivers

\* An id, a Bonjour name, the name of a peer, or a part of every Bonjour name.
Names == {"name", "id", "peer"} \X Receivers
ByPart == <<"part", 0>>

\* What is found of a receiver.
Entry(kind, r, ids) == [name |-> <<kind, r>>, id |-> IF r \in ids THEN r ELSE None]

Finds == [name : Names, id : Receivers \cup {None}]

Outcomes == {"list", "one", "picked", "NoReceiver", "SeveralReceivers"}

DiscoveryTypeOK ==
    /\ said \in [Receivers -> (0 .. MaxWait) \cup {None}]
    /\ search \in
         [ids : SUBSET Receivers, usable : SUBSET Receivers, to : Names \cup {None, ByPart},
          listing : BOOLEAN, wait : BOOLEAN, tailscale : BOOLEAN,
          stage : {"idle", "browse", "tailnet", "choose", "done"},
          now : 0 .. MaxWait, deadline : Nat \cup {None},
          seen : SUBSET Finds, others : SUBSET Finds, died : BOOLEAN,
          out : {None} \cup [kind : Outcomes, found : SUBSET Finds]]

DiscoveryInit ==
    /\ said = [r \in Receivers |-> None]
    /\ search = [ids |-> {}, usable |-> {}, to |-> None, listing |-> FALSE, wait |-> FALSE,
                 tailscale |-> FALSE, stage |-> "idle", now |-> 0,
                 deadline |-> None, seen |-> {}, others |-> {}, died |-> FALSE, out |-> None]

\* run or list is called, for a user's wishes, among the receivers there are:
\* some have an id, some speak a version of the protocol there is.
SearchStarts ==
    /\ search.stage = "idle"
    /\ \E ids, usable \in SUBSET Receivers, to \in Names \cup {None, ByPart},
          listing, wait, tailscale \in BOOLEAN :
        /\ listing => to = None /\ ~wait
        /\ search' = [search EXCEPT
                        !.ids = ids, !.usable = usable, !.to = to, !.listing = listing,
                        !.wait = wait, !.tailscale = tailscale,
                        !.stage = "browse", !.deadline = IF wait THEN None ELSE Timeout]
    /\ UNCHANGED said

-----------------------------------------------------------------------------
\* Mutant: an id is no name.
MatchesName(f, to) == to = f.name \/ (to = ByPart /\ f.name[1] = "name")

\* Found::matches.
Matches(f, to) ==
    \/ to = f.name
    \/ to = ByPart /\ f.name[1] = "name"
    \/ f.id # None /\ to = <<"id", f.id>>

\* The browse is over.
AfterBrowse(s) == IF s.seen = {} /\ ~s.wait /\ s.tailscale THEN "tailnet" ELSE "choose"

TimeIsUp == search.deadline # None /\ search.now >= search.deadline
Browsing == search.stage = "browse" /\ ~TimeIsUp

\* Mutant: the first answer is the receiver.
HeardFirst(s, f) ==
    IF s.to # None /\ ~Matches(f, s.to) THEN [s EXCEPT !.others = @ \cup {f}]
    ELSE [s EXCEPT !.seen = {f}, !.stage = "choose"]

\* find's and list's handling of a receiver they have not heard of.
Heard(s, f) ==
    CASE s.listing -> [s EXCEPT !.seen = @ \cup {f}]
      [] ~s.listing /\ s.to # None /\ ~Matches(f, s.to) -> [s EXCEPT !.others = @ \cup {f}]
      [] ~s.listing /\ s.to # None /\ Matches(f, s.to) ->
            [s EXCEPT !.seen = {f}, !.stage = "choose"]
      [] OTHER -> [s EXCEPT !.seen = @ \cup {f},
                            !.deadline = IF s.seen = {} THEN s.now + SettleTime ELSE @]

\* Bonjour resolves a receiver, once more perhaps.
Says(r) ==
    LET f == Entry("name", r, search.ids) IN
    /\ search.stage # "idle"
    /\ said' = [said EXCEPT ![r] = IF @ = None THEN search.now ELSE @]
    /\ search' = IF /\ Browsing /\ r \in search.usable
                    /\ \A k \in search.seen \cup search.others : k.name # f.name
                 THEN Heard(search, f) ELSE search

BrowseEnds ==
    /\ search.stage = "browse" /\ TimeIsUp
    /\ search' = [search EXCEPT !.stage = AfterBrowse(search)]
    /\ UNCHANGED said

\* The mDNS daemon is gone.
BrowserDies ==
    /\ search.stage = "browse"
    /\ search' = [search EXCEPT !.stage = AfterBrowse(search), !.died = TRUE]
    /\ UNCHANGED said

DiscoveryTick ==
    /\ search.stage = "browse" /\ ~TimeIsUp /\ search.now < MaxWait
    /\ search' = [search EXCEPT !.now = @ + 1]
    /\ UNCHANGED said

-----------------------------------------------------------------------------
(* The tailnet.                                                            *)

\* The first of the peers, by name.
Cut(peers) == {p \in peers : Cardinality({q \in peers : q < p}) < MaxPeers}

\* split_tailscale: receivers Bonjour reported are left out, under whatever name.
Unreported(s, f) == f.id = None \/ \A k \in s.others : k.id # f.id

\* tailscale::discover: these peers are online, these send a hello.  With none
\* online the tool may also be missing, off, or hung.
AskTailnet(online, answering) ==
    LET found == {Entry("peer", r, search.ids) : r \in Cut(online) \cap answering \cap search.usable}
        fresh == {f \in found : Unreported(search, f)}
        meant == {f \in fresh : search.to = None \/ Matches(f, search.to)}
    IN
    /\ search.stage = "tailnet"
    /\ search' = [search EXCEPT !.stage = "choose", !.seen = meant, !.others = @ \cup (fresh \ meant)]
    /\ UNCHANGED said

\* What choose may take of those that were seen.
MayTake ==
    IF search.to = None THEN {search.seen}
    ELSE LET matching == {f \in search.seen : Matches(f, search.to)}
         IN  IF matching = {} THEN {{}} ELSE {{f} : f \in matching}

Finishes(kind, found) ==
    search' = [search EXCEPT !.stage = "done", !.out = [kind |-> kind, found |-> found]]

\* choose, and pick_interactively, as there is a person to pick or none.
Choose ==
    /\ search.stage = "choose"
    /\ \E found \in MayTake :
         \/ search.listing /\ Finishes("list", found)
         \/ ~search.listing /\ found = {} /\ Finishes("NoReceiver", found)
         \/ ~search.listing /\ (\E f \in found : found = {f}) /\ Finishes("one", found)
         \/ /\ ~search.listing /\ found # {} /\ ~\E f \in found : found = {f}
            /\ Finishes("SeveralReceivers", found) \/ \E f \in found : Finishes("picked", {f})
    /\ UNCHANGED said

DiscoveryNext ==
    \/ SearchStarts
    \/ \E r \in Receivers : Says(r)
    \/ BrowseEnds \/ BrowserDies \/ DiscoveryTick
    \/ \E online \in SUBSET Receivers : \E answering \in SUBSET online : AskTailnet(online, answering)
    \/ Choose

DiscoverySpec == DiscoveryInit /\ [][DiscoveryNext]_searchVars

-----------------------------------------------------------------------------
(* Properties.                                                             *)

\* It answered with a protocol version there is.
Answered == {r \in search.usable : said[r] # None}

\* It goes by the name that was given.
Asked(r) ==
    search.to \in {<<"name", r>>, ByPart} \/ (search.to = <<"id", r>> /\ r \in search.ids)

\* Without a name and without a person, the sender dials a receiver only when
\* no other one answered Bonjour until the settle time after the first answer
\* was over, however often the one repeats itself (and whoever it was that
\* answered first).
NeverGuesses ==
    search.out # None /\ search.out.kind = "one" /\ search.to = None /\ ~search.died =>
        \A f \in search.out.found :
            f.name[1] = "name" =>
                \E r \in Answered :
                    \A other \in Answered \ {f.name[2]} : said[other] >= said[r] + SettleTime

\* A receiver that Bonjour reports in time under the name or the id that was
\* asked for is the one dialed: not one that answered before it, nor another
\* over Tailscale.
NamedIsFound ==
    /\ search.out # None /\ search.to # None /\ ~search.died
    /\ \E r \in Answered : Asked(r) /\ (search.wait \/ said[r] < Timeout)
    => /\ search.out.kind = "one"
       /\ \E f \in search.out.found : f.name[1] = "name" /\ Asked(f.name[2])

\* Whatever order answers arrive in, from Bonjour and from Tailscale, again
\* and late, the receiver that lights up is the one that was meant (find,
\* browse).
RightReceiver == NeverGuesses /\ NamedIsFound
=============================================================================
