--------------------------- MODULE DepositClients ---------------------------
(***************************************************************************)
(* Clients that deposit into one market of the escrow program through a    *)
(* network that delays, reorders, duplicates and loses transactions.       *)
(*                                                                         *)
(* A client reads the market, derives the address of the position account  *)
(* from its position_count and names the least weight it accepts; the      *)
(* transaction it signs carries both.  By the time it runs others may have *)
(* deposited, the weight may have decayed, the market may be closed.  The  *)
(* client cannot tell a lost transaction from a slow one, so it retries    *)
(* whenever it likes, provided that its earlier position is not there.  It *)
(* reads position_count and this absence in one snapshot: one that looked  *)
(* for its position first and read the count later could deposit twice.    *)
(* Payouts of a market that takes no deposits any more are left out.       *)
(***************************************************************************)
EXTENDS ChubiEscrow

CONSTANTS
    Authority,           \* the account that creates the market
    TOLERANCE,           \* by how much the weight may fall short of the quote
    MAX_IN_FLIGHT        \* bound: transactions under way

ASSUME ClientAssumption ==
    /\ Authority \in Accounts
    /\ TOLERANCE \in Nat /\ MAX_IN_FLIGHT \in Nat
    /\ 0 \in MinWeights       \* a depositor may do without the slippage guard

VARIABLES
    client,              \* of each account: what it is waiting for
    network              \* the transactions that may still be executed

client_vars == <<vars, client, network>>

Idle == [waiting |-> FALSE, tx |-> [nonce |-> 0, side |-> 0, amount |-> 0, min_weight |-> 0],
         landed |-> 0]

InitClients == Init /\ client = [maker \in Accounts |-> Idle] /\ network = {}

-----------------------------------------------------------------------------
(* The transaction that a client builds from the market as it reads it.    *)
Quoted(side, amount) ==
    [nonce      |-> position_count,
     side       |-> side,
     amount     |-> amount,
     min_weight |-> SatSub(ComputeEntryWeight(FractionRemaining, config.resolution_duration),
                           TOLERANCE)]

Quotable == status = "Open" /\ clock < EndTime /\ position_count < MAX_POSITIONS

InFlight(maker) == {m \in network : m.maker = maker}

Submit(maker, tx) ==
    /\ network' = network \cup {[maker |-> maker, tx |-> tx]}
    /\ Cardinality(network') <= MAX_IN_FLIGHT        \* bound
    /\ client' = [client EXCEPT ![maker].waiting = TRUE, ![maker].tx = tx]
    /\ UNCHANGED vars

(* The client finds its position at the address of its last transaction.   *)
Arrived(maker) ==
    LET p == positions[client[maker].tx.nonce] IN p.live /\ p.maker = maker

Ask(maker, side, amount) ==
    /\ ~ client[maker].waiting
    /\ Quotable /\ side < config.num_sides
    /\ Submit(maker, Quoted(side, amount))

Retry(maker) ==
    /\ client[maker].waiting /\ ~ Arrived(maker)
    /\ Quotable
    /\ Submit(maker, Quoted(client[maker].tx.side, client[maker].tx.amount))

Confirm(maker) ==
    /\ client[maker].waiting /\ Arrived(maker)
    /\ client' = [client EXCEPT ![maker] = [Idle EXCEPT !.landed = client[maker].landed - 1]]
    /\ UNCHANGED <<vars, network>>

(* A client gives up only when none of its transactions can run any more.  *)
GiveUp(maker) ==
    /\ client[maker].waiting /\ ~ Arrived(maker)
    /\ InFlight(maker) = {}
    /\ client' = [client EXCEPT ![maker] = [Idle EXCEPT !.landed = client[maker].landed]]
    /\ UNCHANGED <<vars, network>>

-----------------------------------------------------------------------------
(* Mutant: the address of the position does not depend on position_count.  *)
AnySeeds(tx) == TRUE

(* Mutant: the address is derived from the number of open positions, which *)
(* a withdrawal lowers, and not from position_count.                       *)
SeedsFromOpenPositions(tx) == tx.nonce = TotalPositions

(* The account named in the transaction is the one that the program        *)
(* derives from the market's position_count.                               *)
SeedsMatch(tx) == tx.nonce = position_count

(* A transaction runs; it may run again later.  One that the program       *)
(* refuses has no effect.                                                  *)
Land(maker, tx) ==
    /\ [maker |-> maker, tx |-> tx] \in network
    /\ SeedsMatch(tx)
    /\ Deposit(maker, tx.side, tx.amount, tx.min_weight)
    /\ client' = [client EXCEPT ![maker].landed = @ + 1]
    /\ UNCHANGED network

Lose(m) == network' = network \ {m} /\ UNCHANGED <<vars, client>>

-----------------------------------------------------------------------------
ClientStep ==
    \E maker \in Accounts :
        \/ \E side \in Sides, amount \in Amounts : Ask(maker, side, amount)
        \/ Retry(maker)
        \/ Confirm(maker)
        \/ GiveUp(maker)

NetworkStep == \E m \in network : Land(m.maker, m.tx) \/ Lose(m)

(* What else happens to the market, which allows withdrawals (nobody has   *)
(* to withdraw) and has no lockout.  The authority invalidates it at any   *)
(* time; to a deposit a resolution is the same.  A maker withdraws and     *)
(* closes only when it waits for nothing.                                  *)
Open ==
    \E duration \in Durations :
        /\ clock + duration <= MAX_CLOCK       \* bound, as in Create
        /\ CreateMarket(Authority, NoKey, duration, 2, TRUE, FALSE)

MarketStep ==
    /\ \/ Open
       \/ status = "Open" /\ Tick
       \/ InvalidateMarket(Authority)
       \/ \E maker \in Accounts, n \in Nonces :
              ~ client[maker].waiting /\ (Withdraw(maker, n) \/ ClosePosition(maker, n))
    /\ UNCHANGED <<client, network>>

NextClients == ClientStep \/ NetworkStep \/ MarketStep

(* A transaction that was replaced, or that the program would refuse.      *)
Outdated(m) ==
    \/ m.tx # client[m.maker].tx
    \/ m.tx.nonce # position_count
    \/ m.tx.min_weight > ComputeEntryWeight(FractionRemaining, config.resolution_duration)

ExpireOld == \E m \in network : Outdated(m) /\ Lose(m)

(* A client that waits keeps retrying, what is outdated expires, and while *)
(* some transaction can run, one of them does, whosever it is.  Some that  *)
(* could run are lost, but not for ever.  Nothing is assumed in favour of  *)
(* any one client, and time need not pass.                                 *)
ClientFairness ==
    /\ WF_client_vars(ExpireOld)
    /\ \A maker \in Accounts : WF_client_vars(Retry(maker))
    /\ WF_client_vars(\E m \in network : Land(m.maker, m.tx))
    /\ <>[][\A m \in network : Lose(m) => Outdated(m)]_client_vars

SpecClients == InitClients /\ [][NextClients]_client_vars /\ ClientFairness

-----------------------------------------------------------------------------
(* However often a client retries and whatever the network repeats, a      *)
(* request deposits once: the seeds of the position account hold the       *)
(* position_count that was read (deposit.rs:27-38), so the transactions    *)
(* that a client signs before and after the count moves exclude each       *)
(* other, and none runs again after its position was confirmed or closed.  *)
DepositsLandOnce ==
    \A maker \in Accounts : client[maker].landed <= IF client[maker].waiting THEN 1 ELSE 0

(* The position that a waiting client finds is the one it asked for, even  *)
(* if an earlier transaction of its than the last one created it: its      *)
(* side, its amount, and no less weight than the last quote allows.        *)
DepositIsAsQuoted ==
    \A maker \in Accounts :
        LET tx == client[maker].tx  p == positions[tx.nonce]
        IN  client[maker].waiting /\ Arrived(maker) =>
                p.side = tx.side /\ p.amount = tx.amount /\ p.entry_weight >= tx.min_weight

(* A client whose request has not been carried out.                        *)
Waits(maker) == client[maker].waiting /\ client[maker].landed = 0

(* Would the market take this deposit at the weight of this instant?       *)
Takes(tx) ==
    /\ status = "Open" /\ clock < EndTime
    /\ total_deposited + tx.amount <= U64_MAX

(* Every race for a position_count is won by somebody.  The program keeps  *)
(* no queue, so a client may lose every race it enters; but it loses each  *)
(* to a deposit that ran.  Clients never block each other, by quotes that  *)
(* have gone stale or by transactions under way that can no longer run:    *)
(* while one waits and the market takes deposits, the count moves on.      *)
RacesAreWon ==
    \A maker \in Accounts, k \in Nonces :
        (Waits(maker) /\ position_count = k)
            ~> (position_count > k \/ ~ Waits(maker) \/ ~ Takes(client[maker].tx))
=============================================================================
