----------------------------- MODULE Downloader -----------------------------
(***************************************************************************)
(* The sector download session (proto.Downloader): one connection to one  *)
(* host, one contract, calls made one at a time by the owning goroutine.  *)
(*                                                                         *)
(* A call of PartialSector (or Sector, which asks for the whole sector)   *)
(* runs partialSector through its wire steps -- startRevision, the funds  *)
(* check and download action, negotiateRevision, SyncWithHost, reading    *)
(* the sector -- and, if that fails with a host disconnect, closes the    *)
(* connection, dials a new one and runs partialSector once more.          *)
(*                                                                         *)
(* The host and the network are the environment: the link can drop at any *)
(* moment, the host can raise its price, reject or accept (possibly with  *)
(* a graceful stop) a revision, and send a short or malformed sector.     *)
(* The host accepts a revision only if its number is above the last one  *)
(* it signed (the Sia host rule).  Amounts are in units of the per-byte   *)
(* price times a byte unit; SectorSize is the sector in those units.      *)
(***************************************************************************)
EXTENDS Naturals, Integers

CONSTANTS
    SectorSize,  \* the sector, in abstract byte units
    UintWidth,   \* width of the uint32 offset/length arithmetic (scaled down)
    Offsets,     \* offsets callers pass to PartialSector
    Lengths,     \* lengths callers pass to PartialSector
    Prices,      \* download prices the host may advertise
    InitFunds,   \* renter funds in the contract when the session opens
    MaxCalls,    \* bound on calls made on the session
    MaxFaults    \* bound on failures the environment injects

ASSUME SectorSize < 2^UintWidth /\ Offsets \cup Lengths \subseteq 0..(2^UintWidth - 1)

VARIABLES
    conn,        \* d.conn: "live", "closed" (by the renter) or "nil" (failed redial)
    link,        \* the transport under d.conn: "up", or "down" (host closed / timed out)
    unread,      \* response bytes of an earlier exchange are still unread on d.conn
    hostStop,    \* the host answered the revision with a stop: it closes after the sector
    price,       \* d.host.DownloadBandwidthPrice, refreshed by startRevision
    hostPrice,   \* the price the host currently advertises
    rev, funds,  \* d.contract: revision number and renter funds
    hostRev,     \* the last revision number the host signed
    signed,      \* host's record: revision number -> renter funds it signed
    call,        \* the call in progress, or [stage |-> "idle"]
    calls,       \* number of calls made
    faults,      \* number of injected failures
    \* history variables
    paidInCall,  \* revisions the host signed during the current call
    sent         \* <<offset, length>> of every download action sent

vars == <<conn, link, unread, hostStop, price, hostPrice, rev, funds, hostRev,
          signed, call, calls, faults, paidInCall, sent>>

Idle == [stage |-> "idle"]

\* The proposed revision a call holds before negotiating one.
NoRevision == [num |-> -1, funds |-> 0]

\* uint32 addition, with the width scaled down to UintWidth.
UAdd(a, b) == (a + b) % (2^UintWidth)

\* sectorPrice := d.host.DownloadBandwidthPrice.Mul64(SectorSize)
SectorPrice(p) == p * SectorSize

\* newDownloadRevision: the next revision number, renter funds minus cost.
NewRevision(cost) == [num |-> rev + 1, funds |-> funds - cost]

CanFault == faults < MaxFaults

(***************************************************************************)
(* Leaving partialSector with an error, f being the fault count after the *)
(* failing step.  A disconnect on the first attempt makes PartialSector   *)
(* close d.conn and dial again (initiateRPC): on success the attempt is   *)
(* repeated, on failure d.conn is left nil and the error returned.  Any   *)
(* other error is returned as is, d.conn left as connAfter.               *)
(***************************************************************************)
Fail(disconnect, connAfter, f) ==
    IF disconnect /\ ~call.retried
    THEN \/ /\ conn' = "live" /\ link' = "up" /\ unread' = FALSE /\ hostStop' = FALSE
            /\ call' = [call EXCEPT !.stage = "start", !.retried = TRUE]
            /\ faults' = f
         \/ /\ f < MaxFaults
            /\ conn' = "nil" /\ link' = "down" /\ unread' = FALSE /\ hostStop' = FALSE
            /\ call' = Idle
            /\ faults' = f + 1
    ELSE /\ conn' = connAfter /\ call' = Idle /\ faults' = f
         /\ UNCHANGED <<link, unread, hostStop>>

\* A step on d.conn after the renter closed it fails; whether
\* isHostDisconnect classifies that error as a disconnect is decided
\* outside this code, so both.  A step on a dropped link is a disconnect.
FailWire(connAfter) ==
    \E disconnect \in (IF conn = "closed" THEN BOOLEAN ELSE {TRUE}) :
        Fail(disconnect, connAfter, faults)

WireBroken == link = "down" \/ conn = "closed"

(***************************************************************************)
(* Environment.                                                            *)
(***************************************************************************)
LinkDrop ==
    /\ link = "up" /\ conn = "live" /\ CanFault
    /\ link' = "down" /\ faults' = faults + 1
    /\ UNCHANGED <<conn, unread, hostStop, price, hostPrice, rev, funds, hostRev,
                   signed, call, calls, paidInCall, sent>>

PriceChange(p) ==
    /\ hostPrice # p
    /\ hostPrice' = p
    /\ UNCHANGED <<conn, link, unread, hostStop, price, rev, funds, hostRev,
                   signed, call, calls, faults, paidInCall, sent>>

(***************************************************************************)
(* The caller: PartialSector(root, offset, length), or Sector(root).      *)
(* extendDeadline(d.conn, ...) runs first and panics on a nil d.conn;     *)
(* then the range is checked in uint32 arithmetic.                        *)
(***************************************************************************)
Begin(kind, off, len) ==
    /\ call = Idle /\ calls < MaxCalls
    /\ calls' = calls + 1
    /\ paidInCall' = 0
    /\ call' = IF conn = "nil" THEN [stage |-> "panicked"]
               ELSE IF UAdd(off, len) > SectorSize THEN Idle
               ELSE [stage |-> "start", kind |-> kind, off |-> off, len |-> len,
                     retried |-> FALSE, rev |-> NoRevision]
    /\ UNCHANGED <<conn, link, unread, hostStop, price, hostPrice, rev, funds,
                   hostRev, signed, faults, sent>>

\* Mutation of RefreshedPrice: the per-sector price stored as the per-byte one.
RefreshedPriceOfSector == SectorPrice(hostPrice)

\* The host settings startRevision stores into d.host: the advertised
\* per-byte download price.
RefreshedPrice == hostPrice

\* startRevision: an exchange that refreshes the host's settings.  Bytes of
\* an earlier response still unread on d.conn are read in place of the
\* answer: a decode error that is not a disconnect, d.conn stays open.
StartRevision ==
    /\ call.stage = "start"
    /\ \/ /\ conn = "closed" \/ (link = "down" /\ ~unread)
          /\ FailWire(conn)
          /\ UNCHANGED price
       \/ /\ conn = "live" /\ unread
          /\ Fail(FALSE, conn, faults)
          /\ UNCHANGED price
       \/ /\ conn = "live" /\ link = "up" /\ ~unread
          /\ price' = RefreshedPrice
          /\ call' = [call EXCEPT !.stage = "action"]
          /\ UNCHANGED <<conn, link, unread, hostStop, faults>>
    /\ UNCHANGED <<hostPrice, rev, funds, hostRev, signed, calls, paidInCall, sent>>

\* Mutation of FundsCover: the per-byte price compared, Mul64 forgotten.
FundsCoverPerByte(p) == funds >= p

\* The check "contract has insufficient funds": RenterFunds against the
\* price of a whole sector at the refreshed price.
FundsCover(p) == funds >= SectorPrice(p)

\* The funds check, then the download action is written.
SendAction ==
    /\ call.stage = "action"
    /\ \/ /\ ~FundsCover(price)
          /\ Fail(FALSE, conn, faults)
          /\ UNCHANGED sent
       \/ /\ FundsCover(price) /\ WireBroken
          /\ FailWire(conn)
          /\ UNCHANGED sent
       \/ /\ FundsCover(price) /\ ~WireBroken
          /\ sent' = sent \cup {<<call.off, call.len>>}
          /\ call' = [call EXCEPT !.stage = "negotiate"]
          /\ UNCHANGED <<conn, link, unread, hostStop, faults>>
    /\ UNCHANGED <<price, hostPrice, rev, funds, hostRev, signed, calls, paidInCall>>

(***************************************************************************)
(* negotiateRevision: the revision paying SectorPrice goes to the host,   *)
(* which rejects it or signs it; its signature may then be lost with the  *)
(* link.  A stop response is a signed revision after which the host       *)
(* closes the connection.  Every other failure closes d.conn.             *)
(***************************************************************************)
Proposed == NewRevision(SectorPrice(price))

NegotiateWireFail ==
    /\ WireBroken
    /\ FailWire("closed")
    /\ UNCHANGED <<hostRev, signed, paidInCall>>

\* Mutation of NegotiateRejected: every error treated like ErrStopResponse,
\* the call goes on to SyncWithHost with the unsigned revision.
NegotiateRejectedIgnored ==
    /\ ~WireBroken
    /\ Proposed.num <= hostRev \/ CanFault
    /\ call' = [call EXCEPT !.stage = "sync", !.rev = Proposed]
    /\ faults' = IF Proposed.num <= hostRev THEN faults ELSE faults + 1
    /\ UNCHANGED <<conn, link, unread, hostStop, hostRev, signed, paidInCall>>

\* The host rejects the revision: a stale revision number always, any
\* other revision when the host chooses to (an injected fault).
NegotiateRejected ==
    /\ ~WireBroken
    /\ Proposed.num <= hostRev \/ CanFault
    /\ Fail(FALSE, "closed", IF Proposed.num <= hostRev THEN faults ELSE faults + 1)
    /\ UNCHANGED <<hostRev, signed, paidInCall>>

NegotiateSigned ==
    /\ ~WireBroken /\ Proposed.num > hostRev
    /\ hostRev' = Proposed.num
    /\ signed' = [x \in 0..Proposed.num |->
                    IF x = Proposed.num THEN Proposed.funds ELSE signed[x]]
    /\ paidInCall' = paidInCall + 1
    /\ \/ /\ CanFault                   \* the signature is lost with the link
          /\ Fail(TRUE, "closed", faults + 1)
       \/ /\ call' = [call EXCEPT !.stage = "sync", !.rev = Proposed]
          /\ \E stop \in BOOLEAN : hostStop' = stop    \* ErrStopResponse or nil
          /\ UNCHANGED <<conn, link, unread, faults>>

Negotiate ==
    /\ call.stage = "negotiate"
    /\ NegotiateWireFail \/ NegotiateRejected \/ NegotiateSigned
    /\ UNCHANGED <<price, hostPrice, rev, funds, calls, sent>>

\* SyncWithHost stores the revision of the signed transaction.  It can
\* fail (a disk write): the error is returned with the sector still unread on d.conn.
Sync ==
    /\ call.stage = "sync"
    /\ \/ /\ rev' = call.rev.num /\ funds' = call.rev.funds
          /\ call' = [call EXCEPT !.stage = "read"]
          /\ UNCHANGED <<link, unread, faults>>
       \/ /\ CanFault
          /\ unread' = TRUE /\ call' = Idle
          /\ link' = IF hostStop THEN "down" ELSE link
          /\ faults' = faults + 1
          /\ UNCHANGED <<rev, funds>>
    /\ UNCHANGED <<conn, hostStop, price, hostPrice, hostRev, signed, calls,
                   paidInCall, sent>>

(***************************************************************************)
(* Reading the sector (sectorBuffer.UnmarshalSia) and the length check.   *)
(* A malformed header or a short read closes d.conn; a lost link closes   *)
(* it and is a disconnect.  After a stop the host closes the link once    *)
(* the sector is sent.  Sector() then compares the Merkle root, and on a  *)
(* mismatch returns an error without closing d.conn.                      *)
(***************************************************************************)
\* sectorBuffer.UnmarshalSia fails: the 24-byte header cannot be read or a
\* size in it is rejected ("header"), or the payload ends early ("short").
FrameErrors == {"header", "short"}

\* The host sends bad sector data: a malformed header, a short payload, or
\* (for Sector) data whose Merkle root is not the requested one.
ReadBadSector(bad) ==
    /\ call.stage = "read"
    /\ link = "up" /\ CanFault
    /\ bad = "root" => call.kind = "full"
    /\ conn' = IF bad = "root" THEN conn ELSE "closed"
    /\ call' = Idle
    /\ link' = IF hostStop THEN "down" ELSE link
    /\ faults' = faults + 1
    /\ UNCHANGED <<unread, hostStop>>

Read ==
    /\ call.stage = "read"
    /\ \/ /\ link = "down"
          /\ FailWire("closed")
       \/ \E bad \in FrameErrors \cup {"root"} : ReadBadSector(bad)
       \/ /\ link = "up"
          /\ call' = Idle
          /\ link' = IF hostStop THEN "down" ELSE link
          /\ UNCHANGED <<conn, unread, hostStop, faults>>
    /\ UNCHANGED <<price, hostPrice, rev, funds, hostRev, signed, calls, paidInCall, sent>>

\* Close: terminateRPC says goodbye and closes d.conn; on a nil d.conn it
\* panics.  No call follows.
Close ==
    /\ call = Idle
    /\ call' = IF conn = "nil" THEN [stage |-> "panicked"] ELSE [stage |-> "closed"]
    /\ conn' = IF conn = "nil" THEN conn ELSE "closed"
    /\ UNCHANGED <<link, unread, hostStop, price, hostPrice, rev, funds, hostRev,
                   signed, calls, faults, paidInCall, sent>>

(***************************************************************************)
(* Specification.                                                          *)
(***************************************************************************)
Init ==
    /\ conn = "live" /\ link = "up" /\ unread = FALSE /\ hostStop = FALSE
    /\ hostPrice \in Prices /\ price = hostPrice
    /\ rev = 0 /\ funds = InitFunds
    /\ hostRev = 0 /\ signed = [x \in {0} |-> InitFunds]
    /\ call = Idle /\ calls = 0 /\ faults = 0
    /\ paidInCall = 0 /\ sent = {}

Next ==
    \/ LinkDrop
    \/ \E p \in Prices : PriceChange(p)
    \/ \E off \in Offsets, len \in Lengths : Begin("partial", off, len)
    \/ Begin("full", 0, SectorSize)
    \/ StartRevision
    \/ SendAction
    \/ Negotiate
    \/ Sync
    \/ Read
    \/ Close

Spec == Init /\ [][Next]_vars

(***************************************************************************)
(* Properties.                                                             *)
(***************************************************************************)
TypeOK ==
    /\ conn \in {"live", "closed", "nil"} /\ link \in {"up", "down"}
    /\ unread \in BOOLEAN /\ hostStop \in BOOLEAN
    /\ price \in Prices /\ hostPrice \in Prices
    /\ rev \in Nat /\ funds \in Int /\ hostRev \in Nat
    /\ DOMAIN signed = 0..hostRev /\ \A r \in DOMAIN signed : signed[r] \in Int
    /\ call.stage \in {"idle", "closed", "panicked", "start", "action", "negotiate", "sync", "read"}
    /\ calls \in 0..MaxCalls /\ faults \in 0..MaxFaults
    /\ paidInCall \in Nat
    /\ sent \subseteq (Offsets \cup {0}) \X (Lengths \cup {SectorSize})

(* The contract state the renter keeps (and would present in a dispute)  *)
(* is always one the host countersigned: SyncWithHost is reached only    *)
(* with a signed revision, across lost signatures, rejections, stops and *)
(* the reconnect-and-retry path.                                          *)
RenterHoldsSignedRevision ==
    /\ rev <= hostRev
    /\ signed[rev] = funds

(* No revision the host signs leaves the renter with negative funds: the *)
(* funds check of partialSector uses the price startRevision refreshed,  *)
(* the same one the revision pays, even when the host changes its price  *)
(* between calls.                                                         *)
NoOverdraft ==
    \A r \in DOMAIN signed : signed[r] >= 0

(* At most one payment per call (spec: recover from disconnects "without *)
(* double-paying"): the host signs at most one revision during one       *)
(* PartialSector call.                                                    *)
AtMostOnePaymentPerCall ==
    paidInCall <= 1

(* Every download action sent to the host names a range inside the       *)
(* sector: offset + length <= SectorSize as integers.                    *)
RangeWithinSector ==
    \A r \in sent : r[1] + r[2] <= SectorSize

(* No call on the session panics: d.conn is never nil when a call starts. *)
NoNilConnUse ==
    call.stage # "panicked"

(* The stream stays in step with the host: whenever bytes of a response  *)
(* are left unread, d.conn is no longer used (every error path after the *)
(* download action closes it).                                            *)
StreamInSync ==
    unread => conn # "live"

=============================================================================
