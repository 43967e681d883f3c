---------------------------- MODULE ChainFetcher ----------------------------
(***************************************************************************)
(* InstrumentRegistry (lib/discovery/instrument_registry.py) and the       *)
(* ChainFetchers (lib/discovery/fetchers/chain.py), as run() uses them:    *)
(* every tick fetches the chains of the expiries one after the other, each *)
(* in batches.  The instruments are those of the registry, which is built  *)
(* at startup and may be rebuilt, or, when none was injected, those of a   *)
(* search made by the fetch itself.                                        *)
(*                                                                         *)
(* Every call to the broker may raise, return no dict, or report an error; *)
(* the three differ in the message only.                                   *)
(***************************************************************************)
EXTENDS StrikeLadder

CONSTANTS Expiries,     \* the configured expiries, a sequence
          Listings,     \* what searchScrip may report: [expiry -> [ce, pe]]
          Unresolved,   \* _tokens before the first build
          Spots,        \* index levels
          BatchSize,    \* _BATCH_SIZE
          Strays,       \* instruments of which the broker may answer rows unasked
          Unfetched,    \* how many instruments an answer may list as unfetched
          MaxTicks,     \* bound: ticks
          MaxBuilds     \* bound: calls of build and rebuild

ExpirySet   == {Expiries[i] : i \in DOMAIN Expiries}
Instruments == [side : {"CE", "PE"}, strike : Nat]

\* At least one expiry is configured; the rows of a search are finitely many strikes.
ASSUME ChainFetcherAssumption ==
    /\ Expiries \in Seq(STRING) /\ Expiries # <<>> /\ BatchSize \in Nat \ {0}
    /\ Spots \subseteq Nat /\ MaxTicks \in Nat /\ MaxBuilds \in Nat
    /\ Listings \subseteq [ExpirySet -> [ce : SUBSET Nat, pe : SUBSET Nat]]
    /\ \A listing \in Listings, e \in ExpirySet :
          IsFiniteSet(listing[e].ce) /\ IsFiniteSet(listing[e].pe)
    /\ Unresolved \notin Listings
    /\ Strays \subseteq Instruments /\ Unfetched \subseteq Nat

Results     == [success : BOOLEAN, rows : SUBSET Instruments, unfetched : Nat]
NoMaps      == [ce |-> {}, pe |-> {}]
Failure     == [success |-> FALSE, rows |-> {}, unfetched |-> 0]

VARIABLES
    wired,      \* the fetchers were given the registry
    tokens,     \* registry._tokens: a listing, or Unresolved
    resolved,   \* registry._resolved_expiries, as a set
    builds,     \* calls of build and rebuild
    attempt,    \* the attempt of _search_with_retry to come
    pc,         \* "idle", "search", "expiry", "select", "batch", "raised"
    tick, spot, \* the tick and its index level
    pos,        \* the expiry being fetched, its position
    maps,       \* ce_token_map and pe_token_map
    plan,       \* the batches not requested yet
    answered,   \* the instruments of its batches answered so far, in order
    rows, unfetched,   \* all_fetched and the length of all_unfetched
    results     \* the chain results of the tick so far

registry == <<wired, tokens, resolved>>
current  == <<pos, maps, plan, answered, rows, unfetched>>
vars     == <<registry, builds, attempt, pc, tick, spot, current, results>>

TypeOK ==
    /\ wired \in BOOLEAN
    /\ tokens \in Listings \union {Unresolved} /\ resolved \subseteq ExpirySet
    /\ builds \in 0..MaxBuilds /\ attempt \in 1..2
    /\ pc \in {"idle", "search", "expiry", "select", "batch", "raised"}
    /\ tick \in 0..MaxTicks /\ spot \in Spots \union {0}
    /\ pos \in 1..(Len(Expiries) + 1)
    /\ maps \in [ce : SUBSET Nat, pe : SUBSET Nat]
    /\ plan \in Seq(Seq(Instruments)) /\ answered \in Seq(Instruments)
    /\ rows \subseteq Instruments /\ unfetched \in Nat
    /\ results \in Seq(Results) /\ Len(results) <= Len(Expiries)

Init ==
    /\ wired \in BOOLEAN
    /\ tokens = Unresolved /\ resolved = {} /\ builds = 0 /\ attempt = 1
    /\ pc = "idle" /\ tick = 0 /\ spot = 0
    /\ pos = 1 /\ maps = NoMaps /\ plan = <<>> /\ answered = <<>> /\ rows = {} /\ unfetched = 0
    /\ results = <<>>

-----------------------------------------------------------------------------
\* build, rebuild, of a registry that is wired: between two ticks, by the one thread there is.
Build ==
    /\ wired /\ pc = "idle" /\ builds < MaxBuilds
    /\ builds' = builds + 1 /\ attempt' = 1 /\ pc' = "search"
    /\ UNCHANGED <<registry, tick, spot, current, results>>

\* Mutant: state is reset before the search has an answer.
SearchFailsClearing ==
    /\ pc = "search"
    /\ IF attempt = 1 THEN attempt' = 2 /\ UNCHANGED pc
                      ELSE pc' = "idle" /\ UNCHANGED attempt
    /\ tokens' = Unresolved /\ resolved' = {}
    /\ UNCHANGED <<wired, builds, tick, spot, current, results>>

\* An attempt fails: one more is made, then RegistryBuildError is raised.
SearchFails ==
    /\ pc = "search"
    /\ IF attempt = 1 THEN attempt' = 2 /\ UNCHANGED pc
                      ELSE pc' = "idle" /\ UNCHANGED attempt
    /\ UNCHANGED <<registry, builds, tick, spot, current, results>>

\* The search succeeds and reports no row: RegistryBuildError, without a retry.
SearchEmpty ==
    /\ pc = "search" /\ pc' = "idle"
    /\ UNCHANGED <<registry, builds, attempt, tick, spot, current, results>>

\* Mutant: a new build adds to the old one.
ResolveMerging ==
    /\ pc = "search" /\ pc' = "idle"
    /\ \E listing \in Listings :
         /\ tokens' = IF tokens = Unresolved THEN listing
                      ELSE [e \in ExpirySet |->
                              [ce |-> tokens[e].ce \union listing[e].ce,
                               pe |-> tokens[e].pe \union listing[e].pe]]
         /\ resolved' = resolved \union {e \in ExpirySet : listing[e].ce # {}}
    /\ UNCHANGED <<wired, builds, attempt, tick, spot, current, results>>

\* An expiry is resolved when it has a CE instrument.
Resolve ==
    /\ pc = "search" /\ pc' = "idle"
    /\ \E listing \in Listings :
         /\ tokens' = listing
         /\ resolved' = {e \in ExpirySet : listing[e].ce # {}}
    /\ UNCHANGED <<wired, builds, attempt, tick, spot, current, results>>

-----------------------------------------------------------------------------
Begin == maps' = NoMaps /\ plan' = <<>> /\ answered' = <<>> /\ rows' = {} /\ unfetched' = 0

\* A tick with a usable index level; a registry was built at startup.
Tick ==
    /\ pc = "idle" /\ (wired => tokens # Unresolved) /\ tick < MaxTicks
    /\ tick' = tick + 1 /\ spot' \in Spots
    /\ pc' = "expiry" /\ pos' = 1 /\ results' = <<>> /\ Begin
    /\ UNCHANGED <<registry, builds, attempt>>

\* fetch() of the expiry at pos returns r; the next expiry is due, or none.
Return(r) ==
    /\ results' = Append(results, r)
    /\ pos' = pos + 1 /\ Begin
    /\ pc' = IF pos = Len(Expiries) THEN "idle" ELSE "expiry"

Calls(strikes) == [i \in DOMAIN strikes |-> [side |-> "CE", strike |-> strikes[i]]]
Puts(strikes)  == [i \in DOMAIN strikes |-> [side |-> "PE", strike |-> strikes[i]]]

\* Mutant: the put side has a window of its own.
RequestOwnWindow(listing, level) ==
    Calls(Window(listing.ce, level)) \o Puts(Window(listing.pe, level))

\* The CE window, then the PE instruments at its strikes, in the same order.
Request(listing, level) ==
    LET strikes == Window(listing.ce, level)
        paired  == {strikes[i] : i \in DOMAIN strikes} \intersect listing.pe
    IN  Calls(strikes) \o Puts(Sorted(paired))

\* s[i : i + BatchSize] for i in steps of BatchSize.
Batches(s) ==
    [i \in 1..((Len(s) + BatchSize - 1) \div BatchSize) |->
        SubSeq(s, (i - 1) * BatchSize + 1,
                  IF i * BatchSize < Len(s) THEN i * BatchSize ELSE Len(s))]

\* Mutant: an expiry without calls is fetched for its puts.
FoundUnchecked(found) ==
    /\ maps' = found /\ pc' = "select"
    /\ UNCHANGED <<pos, plan, answered, rows, unfetched, results>>

\* The instruments of the expiry are found; without calls the fetch fails.
Found(found) ==
    IF found.ce = {}
      THEN Return(Failure)
      ELSE /\ maps' = found /\ pc' = "select"
           /\ UNCHANGED <<pos, plan, answered, rows, unfetched, results>>

(***************************************************************************)
(* Phase 1 of fetch(): the token maps, from the registry or from a search  *)
(* of its own, which is not retried.  An answer that is no dict makes      *)
(* fetch() raise.                                                          *)
(***************************************************************************)
Discover ==
    /\ pc = "expiry"
    /\ \/ wired /\ Found(tokens[Expiries[pos]])
       \/ ~wired /\ \E listing \in Listings : Found(listing[Expiries[pos]])
       \/ ~wired /\ Return(Failure)
       \/ ~wired /\ pc' = "raised" /\ UNCHANGED <<current, results>>
    /\ UNCHANGED <<registry, builds, attempt, tick, spot>>

\* Phase 1.5: the window, cut into batches.
Select ==
    /\ pc = "select" /\ pc' = "batch"
    /\ plan' = Batches(Request(maps, spot))
    /\ UNCHANGED <<registry, builds, attempt, tick, spot, pos, maps, answered, rows,
                   unfetched, results>>

\* Mutant: a failed batch is left out and the others go on.
BatchFailsSkipped ==
    /\ pc = "batch" /\ plan # <<>>
    /\ plan' = Tail(plan)
    /\ UNCHANGED <<registry, builds, attempt, pc, tick, spot, pos, maps, answered, rows,
                   unfetched, results>>

\* getMarketData fails: the rows of the earlier batches are dropped.
BatchFails ==
    /\ pc = "batch" /\ plan # <<>>
    /\ Return(Failure)
    /\ UNCHANGED <<registry, builds, attempt, tick, spot>>

\* getMarketData answers.  Its rows are taken as they come: those of any of the batch, and
\* of instruments that were not asked for; so is the list of what it could not fetch.
BatchAnswered ==
    /\ pc = "batch" /\ plan # <<>>
    /\ plan' = Tail(plan) /\ answered' = answered \o Head(plan)
    /\ \E got \in SUBSET ({Head(plan)[i] : i \in DOMAIN Head(plan)} \union Strays) :
          rows' = rows \union got
    /\ \E n \in Unfetched : unfetched' = unfetched + n
    /\ UNCHANGED <<registry, builds, attempt, pc, tick, spot, pos, maps, results>>

\* All batches answered: a success, unless no row came back at all.
Complete ==
    /\ pc = "batch" /\ plan = <<>>
    /\ Return([success |-> rows # {}, rows |-> rows, unfetched |-> unfetched])
    /\ UNCHANGED <<registry, builds, attempt, tick, spot>>

Next ==
    \/ Build \/ SearchFails \/ SearchEmpty \/ Resolve
    \/ Tick \/ Discover \/ Select \/ BatchFails \/ BatchAnswered \/ Complete

Spec == Init /\ [][Next]_vars

-----------------------------------------------------------------------------
StrikesOf(s, side) == {s[i].strike : i \in {j \in DOMAIN s : s[j].side = side}}

(***************************************************************************)
(* What is requested for an expiry is its window: on the call side exactly *)
(* the reference window around the ATM, each strike once and in order, and *)
(* on the put side those of the same strikes that are listed, so that the  *)
(* two sides of a chain always pair up; no request is empty or over the    *)
(* broker's limit (chain.py:311-344, the limit at 71).                     *)
(***************************************************************************)
RequestIsWindow ==
    pc = "batch" =>
        LET whole == answered \o FlattenSeq(plan)
        IN  /\ StrikesOf(whole, "CE") = WindowStrikes(maps.ce, spot)
            /\ StrikesOf(whole, "PE") = WindowStrikes(maps.ce, spot) \intersect maps.pe
            /\ \A i, j \in DOMAIN whole : i < j /\ whole[i].side = whole[j].side
                                             => whole[i].strike < whole[j].strike
            /\ \A i \in DOMAIN plan : 1 <= Len(plan[i]) /\ Len(plan[i]) <= BatchSize

(***************************************************************************)
(* The chains of a tick answer for their own expiry, the i-th result for   *)
(* the i-th expiry: with a registry, one it could not resolve gets a       *)
(* failure and no request is made for it, one it could is asked for with   *)
(* the instruments of the last successful build, whatever became of the    *)
(* other expiries or of a rebuild (controller.py:449, chain.py:229-247).   *)
(***************************************************************************)
UnresolvedFails ==
    /\ pc \in {"expiry", "select", "batch"} =>
         /\ Len(results) = pos - 1
         /\ wired => \A i \in DOMAIN results : Expiries[i] \notin resolved => results[i] = Failure
    /\ pc \in {"select", "batch"} =>
         /\ maps.ce # {}
         /\ wired => Expiries[pos] \in resolved /\ maps = tokens[Expiries[pos]]
    /\ pc = "batch" => plan # <<>> \/ answered # <<>>

(***************************************************************************)
(* The ATM of the window is within one step of the index level whenever    *)
(* the backbone has strikes on both sides of it with no hole between them, *)
(* although it is rounded twice, to a multiple of the step and then to the *)
(* backbone (strike_ladder.py:101-122; the threshold of rule R4).          *)
(***************************************************************************)
AtmNearSpot ==
    pc = "batch" =>
        LET backbone == Backbone(maps.ce)
        IN  (\E a \in backbone : a <= spot /\ a + Step \in backbone /\ spot <= a + Step)
              => Abs(ResolvedAtm(maps.ce, spot) - spot) <= Step

\* The registry implements the universe: a failed build changes nothing.
Abstract == INSTANCE Universe WITH universe <- tokens, Unknown <- Unresolved

RefinesUniverse == Abstract!Spec

(***************************************************************************)
(* A success is a whole chain: between a batch that fails and the next     *)
(* expiry there is no other outcome than a failure without rows, so a      *)
(* result that is a success had its whole window answered, calls and puts, *)
(* and has the rows of every answer ("on any batch failure the remaining   *)
(* batches are abandoned immediately", chain.py:42).  That the rows are of *)
(* what was asked, the broker sees to: nothing here checks it.             *)
(***************************************************************************)
NoPartialChain ==
    [][\A i \in DOMAIN results' \ DOMAIN results :
          results'[i].success =>
             /\ plan = <<>> /\ results'[i].rows = rows
             /\ StrikesOf(answered, "CE") = WindowStrikes(maps.ce, spot)
             /\ StrikesOf(answered, "PE") = WindowStrikes(maps.ce, spot) \intersect maps.pe]_results
=============================================================================
