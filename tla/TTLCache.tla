------------------------------- MODULE TTLCache -------------------------------
(***************************************************************************)
(* The TTL cache: Put, Get and Prune from any number of goroutines while   *)
(* time passes.                                                            *)
(*                                                                         *)
(* Put is one step under the lock.  Get copies the entry under the read    *)
(* lock and reads the clock after it has given the lock back.  Prune holds *)
(* the lock from its first entry to its last and reads the clock for each. *)
(* A value is the number of the Put that stored it.                        *)
(***************************************************************************)
EXTENDS Naturals, Sequences

CONSTANTS
    Names,      \* the keys
    Getters,    \* the goroutines that call Get
    LastInstant,\* bound: time stops here
    MaxPuts,    \* bound: no more than this many values are put
    NoName      \* what a goroutine outside Get looks for

ASSUME LastInstantAssumption == LastInstant \in Nat
ASSUME MaxPutsAssumption == MaxPuts \in Nat
ASSUME NoNameAssumption == NoName \notin Names

VARIABLES
    now,
    held,       \* the map: per name [value, expires], value 0 for no entry
    todo,       \* the entries a Prune in progress has still to look at
    pruning,    \* whether a Prune has the lock
    wanted,     \* per getter, the name it looks for
    copied,     \* per getter, the entry its Get has copied
    got,        \* per getter, what its last Get returned: a value or Absent
    expiry,     \* history: when each value put was to expire
    gone        \* history: the values Prune has dropped

ttlVars == <<now, held, todo, pruning, wanted, copied, got, expiry, gone>>

Instants == 0 .. LastInstant
PutNumbers == 1 .. MaxPuts
NoEntry == [value |-> 0, expires |-> 0]
Absent == 0

TTLInit ==
    /\ now = 0
    /\ held = [n \in Names |-> NoEntry]
    /\ todo = {}
    /\ pruning = FALSE
    /\ wanted = [g \in Getters |-> NoName]
    /\ copied = [g \in Getters |-> NoEntry]
    /\ got = [g \in Getters |-> Absent]
    /\ expiry = <<>>
    /\ gone = {}

-------------------------------------------------------------------------------
Expired(entry) == now > entry.expires

PutUntil(n, expires) ==
    LET value == Len(expiry) + 1 IN
    /\ ~ pruning
    /\ value \in PutNumbers
    /\ held' = [held EXCEPT ![n] = [value |-> value, expires |-> expires]]
    /\ expiry' = Append(expiry, expires)
    /\ UNCHANGED <<now, todo, pruning, wanted, copied, got, gone>>

(* Get, up to the end of the read lock.                                    *)
Copy(g, n) ==
    /\ wanted[g] = NoName
    /\ ~ pruning
    /\ wanted' = [wanted EXCEPT ![g] = n]
    /\ copied' = [copied EXCEPT ![g] = held[n]]
    /\ got' = [got EXCEPT ![g] = Absent]
    /\ UNCHANGED <<now, held, todo, pruning, expiry, gone>>

(* Get, from reading the clock.  What it returns stays until the next Get. *)
Judge(g) ==
    /\ wanted[g] # NoName
    /\ got' = [got EXCEPT ![g] = IF Expired(copied[g]) THEN Absent ELSE copied[g].value]
    /\ wanted' = [wanted EXCEPT ![g] = NoName]
    /\ copied' = [copied EXCEPT ![g] = NoEntry]
    /\ UNCHANGED <<now, held, todo, pruning, expiry, gone>>

BeginPrune ==
    /\ ~ pruning
    /\ pruning' = TRUE
    /\ todo' = {n \in Names : held[n] # NoEntry}
    /\ UNCHANGED <<now, held, wanted, copied, got, expiry, gone>>

(* Fault: an entry is dropped at the instant it expires, not after it.      *)
FaultOver(entry) == now >= entry.expires

Over(entry) == Expired(entry)

(* One round of the loop in Prune, with a clock of its own.                *)
PruneEntry(n) ==
    /\ pruning
    /\ n \in todo
    /\ todo' = todo \ {n}
    /\ IF Over(held[n])
       THEN /\ held' = [held EXCEPT ![n] = NoEntry]
            /\ gone' = gone \union {held[n].value}
       ELSE UNCHANGED <<held, gone>>
    /\ UNCHANGED <<now, pruning, wanted, copied, got, expiry>>

EndPrune ==
    /\ pruning
    /\ todo = {}
    /\ pruning' = FALSE
    /\ UNCHANGED <<now, held, todo, wanted, copied, got, expiry, gone>>

Pass ==
    /\ now < LastInstant
    /\ now' = now + 1
    /\ UNCHANGED <<held, todo, pruning, wanted, copied, got, expiry, gone>>

TTLNext ==
    \/ \E n \in Names, expires \in Instants : PutUntil(n, expires)
    \/ \E g \in Getters : Judge(g) \/ \E n \in Names : Copy(g, n)
    \/ BeginPrune
    \/ \E n \in Names : PruneEntry(n)
    \/ EndPrune
    \/ Pass

TTLSpec == TTLInit /\ [][TTLNext]_ttlVars

-------------------------------------------------------------------------------
(* Properties                                                              *)

(* ttl.go lines 27 and 45, "Get returns a live value", "Prune removes      *)
(* expired entries": however long ago a Get copied its entry, it never     *)
(* returns a value that has expired by then, nor one that a Prune has      *)
(* dropped in between.                                                     *)
HitIsLive ==
    [][\A g \in Getters :
          got'[g] # got[g] /\ got'[g] # Absent => now <= expiry[got'[g]] /\ got'[g] \notin gone]_ttlVars

===============================================================================
