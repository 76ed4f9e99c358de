-------------------------- MODULE RegistryDiscovery --------------------------
(***************************************************************************)
(* CKBPeerDiscovery.discover_peers (src/ckb_registry/discovery.py) reading *)
(* the live registry cells page by page from an indexer, while the chain   *)
(* of RegistryChain goes on committing transactions between two pages.     *)
(*                                                                         *)
(* Between two awaits the coroutine is atomic; the awaits are the          *)
(* get_cells calls.  So the actions are the start of a discovery, one per  *)
(* page (the last, empty page also runs the whole synchronous tail of      *)
(* discover_peers), and a call that raises.                                *)
(*                                                                         *)
(* The indexer is outside the repository: a reply is a consistent snapshot *)
(* of the live cells, in ascending key order, starting after the cursor.   *)
(* One behind a load balancer, or one that rolls back, may also answer     *)
(* with a page from elsewhere, from a state it has left, and so for ever:  *)
(* discover_peers only sees that a page is not empty and that its          *)
(* last_cursor is not the one it sent.                                     *)
(***************************************************************************)
EXTENDS RegistryChain, Sequences, SequencesExt, FiniteSetsExt

CONSTANTS
    IdentityFirst,  \* TRUE: keys start with the type script; FALSE: block order
    Oversized,      \* records beyond config.max_record_bytes
    Now,            \* time_provider()
    MaxSkew,        \* max_future_record_skew_seconds
    PageSize,       \* registry_page_size
    MaxPages,       \* registry_max_pages
    MaxCells,       \* registry_max_cells
    MaxScans,       \* bound: discoveries started
    MovesAstray     \* bound: FALSE stops the chain once pages come from elsewhere

VARIABLES
    cached_peers,   \* identity -> outpoint of the record published for it
    quarantined,    \* quarantined_identities
    phase,          \* "idle" or "paging"
    outcome,        \* how the last discovery ended: "none", "ok" or "failed"
    cursor,         \* key of the last cell read, <<>> before the first page
    pages,          \* pages requested by this discovery
    fetched,        \* the cells read so far, as [op, cell] in reading order
    scans,          \* discoveries started
    atStart,        \* history: the live cells when this discovery started
    astray          \* history: a page of this discovery did not continue after the cursor

scanVars ==
    <<cached_peers, quarantined, phase, outcome, cursor, pages, fetched, scans, atStart, astray>>
discoveryVars == <<vars, scanVars>>

ASSUME DiscoveryAssumption ==
    /\ IdentityFirst \in BOOLEAN
    /\ Oversized \subseteq Payloads
    /\ Now \in Nat /\ MaxSkew \in Nat
    /\ PageSize \in Nat \ {0} /\ MaxPages \in Nat \ {0} /\ MaxCells \in Nat
    /\ MovesAstray \in BOOLEAN

-----------------------------------------------------------------------------
(* The indexer's reply to get_cells. *)

Key(op, cell) ==
    LET id == cell.type
    IN  IF IdentityFirst THEN id[1] \o <<id[2]>> \o op ELSE op

KeyBefore(a, b) ==
    \E i \in DOMAIN b :
        /\ i \notin DOMAIN a \/ a[i] < b[i]
        /\ \A j \in 1..(i - 1) : j \in DOMAIN a /\ a[j] = b[j]

RegistryCells(live) == {op \in DOMAIN live : live[op].type # Plain}

\* How many cells of S come before op in the order of their keys.
Rank(op, S) == Cardinality({q \in S : KeyBefore(Key(q, cells[q]), Key(op, cells[op]))})
At(S, n) == CHOOSE op \in S : Rank(op, S) = n

\* Mutant: the pages are numbered, not continued after a cursor.
get_cells_ByOffset(after) ==
    LET all == RegistryCells(cells)
        offset == pages * PageSize
    IN  [i \in 1..Min({Cardinality(all) - offset, PageSize}) |->
            [op |-> At(all, offset + i - 1), cell |-> cells[At(all, offset + i - 1)]]]

get_cells(after) ==
    LET rest == {op \in RegistryCells(cells) : KeyBefore(after, Key(op, cells[op]))}
    IN  [i \in 1..Min({Cardinality(rest), PageSize}) |->
            [op |-> At(rest, i - 1), cell |-> cells[At(rest, i - 1)]]]

-----------------------------------------------------------------------------
(* The synchronous tail of discover_peers. *)

\* A record that does not decode leaves its identity seen but unpublished.
_parse_receiver_cell(cell) == cell.data \notin Oversized

_is_receiver_valid(r) ==
    /\ r.status = "online"             \* revoked, offline, degraded are skipped
    /\ r.updated_at - Now =< MaxSkew   \* no maximum age by default

Identities(read) == {read[i].cell.type : i \in DOMAIN read}
CellsOf(read, id) == {i \in DOMAIN read : read[i].cell.type = id}

\* The second cell of an identity quarantines it, whatever either holds.
Duplicates(read) == {id \in Identities(read) : \E i, j \in CellsOf(read, id) : i # j}

\* Mutant: the first record of a duplicate identity stays published.
Active_KeepsFirst(read) ==
    {i \in DOMAIN read :
        /\ \A j \in 1..(i - 1) : read[j].cell.type # read[i].cell.type
        /\ _parse_receiver_cell(read[i].cell)
        /\ _is_receiver_valid(read[i].cell.data)}

\* Mutant: the status of a record is not looked at.
Active_AnyStatus(read) ==
    {i \in DOMAIN read :
        /\ read[i].cell.type \notin Duplicates(read)
        /\ _parse_receiver_cell(read[i].cell)}

Active(read) ==
    {i \in DOMAIN read :
        /\ read[i].cell.type \notin Duplicates(read)
        /\ _parse_receiver_cell(read[i].cell)
        /\ _is_receiver_valid(read[i].cell.data)}

Published(read) ==
    [id \in {read[i].cell.type : i \in Active(read)} |->
        read[CHOOSE i \in Active(read) : read[i].cell.type = id].op]

-----------------------------------------------------------------------------
(* The coroutine *)

NoPeers == [id \in {} |-> <<>>]

DiscoveryInit ==
    /\ Init
    /\ cached_peers = NoPeers
    /\ quarantined = {}
    /\ phase = "idle"
    /\ outcome = "none"
    /\ cursor = <<>>
    /\ pages = 0
    /\ fetched = <<>>
    /\ scans = 0
    /\ atStart = cells
    /\ astray = FALSE

discover_peers ==
    /\ phase = "idle" /\ scans < MaxScans
    /\ phase' = "paging" /\ scans' = scans + 1
    /\ cached_peers' = NoPeers /\ quarantined' = {}
    /\ cursor' = <<>> /\ pages' = 0 /\ fetched' = <<>> /\ atStart' = cells /\ astray' = FALSE
    /\ UNCHANGED <<vars, outcome>>

Fail ==
    /\ phase' = "idle" /\ outcome' = "failed"
    /\ cursor' = <<>> /\ pages' = 0 /\ fetched' = <<>>
    /\ UNCHANGED <<vars, cached_peers, quarantined, scans, atStart, astray>>

\* The transport, the node or a malformed reply raises: also a last_cursor that
\* is missing or repeated, and a page from elsewhere beyond one of the limits.
RpcFails == phase = "paging" /\ Fail

\* The last page that registry_max_pages allows is not the empty one.
TooManyPages ==
    /\ phase = "paging" /\ pages + 1 = MaxPages
    /\ get_cells(cursor) # <<>>
    /\ Fail

\* Mutant: the cells read before the limit are published with the error.
TooManyCells_PublishesPart ==
    /\ phase = "paging"
    /\ Len(fetched) + Len(get_cells(cursor)) > MaxCells
    /\ cached_peers' = Published(fetched) /\ phase' = "idle" /\ outcome' = "failed"
    /\ cursor' = <<>> /\ pages' = 0 /\ fetched' = <<>>
    /\ UNCHANGED <<vars, quarantined, scans, atStart, astray>>

TooManyCells ==
    /\ phase = "paging"
    /\ Len(fetched) + Len(get_cells(cursor)) > MaxCells
    /\ Fail

ReadPage ==
    /\ phase = "paging" /\ pages + 1 < MaxPages
    /\ LET page == get_cells(cursor)
       IN  /\ page # <<>>
           /\ Len(fetched) + Len(page) =< MaxCells
           /\ fetched' = fetched \o page
           /\ cursor' = Key(Last(page).op, Last(page).cell)
           /\ pages' = pages + 1
    /\ UNCHANGED <<vars, cached_peers, quarantined, phase, outcome, scans, atStart, astray>>

\* Mutant: cells that were read before are passed over and count for no limit.
ReadElsewhere_Uncounted ==
    /\ phase = "paging"
    /\ \E i \in DOMAIN fetched :
        LET key == Key(fetched[i].op, fetched[i].cell) IN key # cursor /\ cursor' = key
    /\ astray' = TRUE
    /\ UNCHANGED <<vars, cached_peers, quarantined, phase, outcome, pages, fetched, scans, atStart>>

\* A page that does not continue after the cursor, of one cell that is live or
\* was at the start, is taken like any other.
ReadElsewhere ==
    /\ phase = "paging" /\ pages + 1 < MaxPages
    /\ Len(fetched) + 1 =< MaxCells
    /\ \E shown \in {cells, atStart} : \E op \in RegistryCells(shown) :
        LET key == Key(op, shown[op]) IN
        /\ key # cursor
        /\ fetched' = Append(fetched, [op |-> op, cell |-> shown[op]])
        /\ cursor' = key
    /\ pages' = pages + 1 /\ astray' = TRUE
    /\ UNCHANGED <<vars, cached_peers, quarantined, phase, outcome, scans, atStart>>

\* An empty page ends the scan; everything after it runs without an await.
Publish ==
    /\ phase = "paging"
    /\ get_cells(cursor) = <<>>
    /\ cached_peers' = Published(fetched)
    /\ quarantined' = Duplicates(fetched)
    /\ phase' = "idle" /\ outcome' = "ok"
    /\ cursor' = <<>> /\ pages' = 0
    /\ UNCHANGED <<vars, fetched, scans, atStart, astray>>

Scan == RpcFails \/ TooManyPages \/ TooManyCells \/ ReadPage \/ ReadElsewhere \/ Publish

\* Bound: the chain stops once no discovery is left to see it.
CommitMeanwhile ==
    /\ phase = "paging" \/ scans < MaxScans
    /\ astray => MovesAstray
    /\ Commit
    /\ UNCHANGED scanVars

DiscoveryNext == discover_peers \/ Scan \/ CommitMeanwhile

\* Each get_cells call answers or times out (api_timeout), so a discovery that
\* is waiting for a page goes on.
DiscoverySpec == DiscoveryInit /\ [][DiscoveryNext]_discoveryVars /\ WF_discoveryVars(Scan)

-----------------------------------------------------------------------------
(* Properties *)

DiscoveryTypeOK ==
    /\ TypeOK
    /\ IsInjective(cached_peers)
    /\ DOMAIN cached_peers \subseteq Identity \ quarantined
    /\ quarantined \subseteq Identity
    /\ phase \in {"idle", "paging"} /\ outcome \in {"none", "ok", "failed"}
    /\ pages \in 0..MaxPages /\ scans \in 0..MaxScans /\ astray \in BOOLEAN
    /\ Len(fetched) =< MaxCells

Succeeded == phase = "idle" /\ outcome = "ok"

\* A receiver whose online cell was live from the start of the discovery to its
\* end is published, however many others were committed, moved or spent between
\* the pages, as long as every page continues after the cursor
\* (discovery.py:215-239: the cursor never skips a live cell).
NothingMissed ==
    Succeeded /\ ~astray =>
        \A op \in RegistryCells(cells) :
            /\ op \in DOMAIN atStart
            /\ _parse_receiver_cell(cells[op])
            /\ _is_receiver_valid(cells[op].data)
            => cells[op].type \in DOMAIN cached_peers /\ cached_peers[cells[op].type] = op

\* An identity that was revoked when the discovery started is not published,
\* and stays unpublished although its tombstone remains live, wherever the
\* pages come from (discovery.py:395-397).
RevokedStaysOut ==
    Succeeded =>
        \A op \in RegistryCells(atStart) :
            atStart[op].data.status = "revoked" => atStart[op].type \notin DOMAIN cached_peers

\* While a discovery runs, and after it failed, nothing is published: neither
\* the previous result nor a partial one (discovery.py:146-152).
NothingStalePublished ==
    phase = "paging" \/ outcome = "failed" => cached_peers = NoPeers /\ quarantined = {}

\* What is published for an identity is not a record that the discovery itself
\* has seen replaced: an identity read twice is withheld (discovery.py:158-167).
NothingSupersededPublished ==
    Succeeded =>
        \A id \in DOMAIN cached_peers : \A i \in DOMAIN fetched :
            fetched[i].cell.type = id => fetched[i].op = cached_peers[id]

\* A discovery ends although the indexer can go on for ever with pages that are
\* not empty and never repeat the cursor just sent: registry_max_pages and
\* registry_max_cells end it (discovery.py:215-241).
DiscoveryEnds == phase = "paging" ~> phase = "idle"
=============================================================================
