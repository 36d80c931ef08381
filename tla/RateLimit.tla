------------------------------- MODULE RateLimit -------------------------------
(***************************************************************************)
(* SecurityGuard.allow, which every request of the web application passes  *)
(* first: a sliding window for each client, in a dictionary the request    *)
(* threads share without a lock. Buckets are objects: a thread that has    *)
(* fetched one goes on with it when another thread takes it out of the     *)
(* dictionary. An object is named by the client and the number of buckets  *)
(* the client had before.                                                  *)
(***************************************************************************)
EXTENDS Integers, Sequences, FiniteSets, SequencesExt

CONSTANTS GuardThreads, Clients,
          Limit, Window, MaxTracked,
          MaxSeconds,        \* bound: seconds of a behaviour
          MaxRequests        \* bound: requests of a behaviour

ASSUME GuardAssumption ==
    /\ Limit \in Nat \ {0} /\ Window \in Nat \ {0} /\ MaxTracked \in Nat \ {0}
    /\ IsFiniteSet(GuardThreads) /\ Clients # {}

VARIABLES
    second,
    tracked,     \* the keys of _buckets, in the order they came in
    bucket,      \* the timestamps in the bucket of each client
    buckets,     \* how many buckets each client has had
    asking,      \* the request of each thread
    requests,
    served,      \* the times at which requests of each client were allowed
    evicted,     \* clients whose bucket was given up for that of another
    oneByOne     \* no two threads were inside allow at a time

guardVars == <<second, tracked, bucket, buckets, asking, requests, served, evicted, oneByOne>>

NotAsking == [pc |-> "idle", client |-> CHOOSE c \in Clients : TRUE, at |-> 0, bucket |-> 0,
              stale |-> {}]

GuardInit ==
    /\ second = 0 /\ tracked = <<>>
    /\ bucket = [c \in Clients |-> <<>>] /\ buckets = [c \in Clients |-> 0]
    /\ asking = [t \in GuardThreads |-> NotAsking]
    /\ requests = 0 /\ served = [c \in Clients |-> <<>>]
    /\ evicted = {} /\ oneByOne = TRUE

Asks(t, a) == asking' = [asking EXCEPT ![t] = a]

IsTracked(c) == c \in Range(tracked)

(* Mutant: a bucket is stale when its first request is.                    *)
StaleFirst(times, cutoff) == times = <<>> \/ Head(times) <= cutoff

Stale(times, cutoff) == times = <<>> \/ Last(times) <= cutoff

(* The time is taken and the stale buckets are listed.                    *)
Prune(t) ==
    /\ asking[t].pc = "idle" /\ requests < MaxRequests
    /\ requests' = requests + 1
    /\ oneByOne' = (oneByOne /\ \A u \in GuardThreads : asking[u].pc = "idle")
    /\ \E c \in Clients :
          Asks(t, [NotAsking EXCEPT !.pc = "prune", !.client = c, !.at = second,
                      !.stale = {d \in Range(tracked) : Stale(bucket[d], second - Window)}])
    /\ UNCHANGED <<second, tracked, bucket, buckets, served, evicted>>

(* Another thread changes the dictionary while it is gone through: that
   raises, and the request ends.                                           *)
PruneRaises(t) ==
    /\ asking[t].pc = "idle" /\ requests < MaxRequests
    /\ \E u \in GuardThreads : asking[u].pc \in {"prune", "bound"}
    /\ requests' = requests + 1 /\ oneByOne' = FALSE
    /\ UNCHANGED <<second, tracked, bucket, buckets, asking, served, evicted>>

Without(keys, c) ==
    IF c \in Range(keys) THEN RemoveAt(keys, CHOOSE i \in DOMAIN keys : keys[i] = c) ELSE keys

(* What was stale is taken out, whatever has become of it meanwhile.       *)
DropStale(t) ==
    /\ asking[t].pc = "prune"
    /\ \E c \in asking[t].stale :
          /\ tracked' = Without(tracked, c)
          /\ bucket' = [bucket EXCEPT ![c] = <<>>]
          /\ Asks(t, [asking[t] EXCEPT !.stale = @ \ {c}])
    /\ UNCHANGED <<second, buckets, requests, served, evicted, oneByOne>>

FetchBucket(t) ==
    /\ asking[t].pc = "prune" /\ asking[t].stale = {}
    /\ LET c == asking[t].client IN
       IF IsTracked(c)
       THEN /\ Asks(t, [asking[t] EXCEPT !.pc = "count", !.bucket = buckets[c]])
            /\ UNCHANGED <<tracked, bucket, buckets>>
       ELSE /\ tracked' = Append(tracked, c)
            /\ bucket' = [bucket EXCEPT ![c] = <<>>]
            /\ buckets' = [buckets EXCEPT ![c] = @ + 1]
            /\ Asks(t, [asking[t] EXCEPT !.pc = "count", !.bucket = buckets[c] + 1])
    /\ UNCHANGED <<second, requests, served, evicted, oneByOne>>

(* The bucket in the thread's hands is the one in the dictionary.          *)
Current(t) == IsTracked(asking[t].client) /\ asking[t].bucket = buckets[asking[t].client]

(* The first request in the bucket has left the window.                    *)
HasExpired(t) ==
    /\ bucket[asking[t].client] # <<>>
    /\ Head(bucket[asking[t].client]) <= asking[t].at - Window

DropExpired(t) ==
    /\ asking[t].pc = "count" /\ Current(t) /\ HasExpired(t)
    /\ bucket' = [bucket EXCEPT ![asking[t].client] = Tail(@)]
    /\ UNCHANGED <<second, tracked, buckets, asking, requests, served, evicted, oneByOne>>

(* What is left is counted; in a bucket that is no longer in the dictionary
   there may be anything.                                                  *)
Count(t) ==
    /\ asking[t].pc = "count"
    /\ Current(t) => ~HasExpired(t)
    /\ \E allowed \in BOOLEAN :
          /\ Current(t) => allowed = (Len(bucket[asking[t].client]) < Limit)
          /\ Asks(t, IF allowed THEN [asking[t] EXCEPT !.pc = "append"] ELSE NotAsking)
    /\ UNCHANGED <<second, tracked, bucket, buckets, requests, served, evicted, oneByOne>>

AppendTime(t) ==
    /\ asking[t].pc = "append"
    /\ LET c == asking[t].client IN
       /\ bucket' = IF Current(t) THEN [bucket EXCEPT ![c] = Append(@, asking[t].at)] ELSE bucket
       /\ served' = [served EXCEPT ![c] = Append(@, asking[t].at)]
    /\ Asks(t, [asking[t] EXCEPT !.pc = "bound"])
    /\ UNCHANGED <<second, tracked, buckets, requests, evicted, oneByOne>>

(* _bound_clients gives up the bucket that came in first, while there are
   too many.                                                               *)
BoundClients(t) ==
    /\ asking[t].pc = "bound"
    /\ IF Len(tracked) > MaxTracked
       THEN /\ tracked' = Tail(tracked)
            /\ bucket' = [bucket EXCEPT ![Head(tracked)] = <<>>]
            /\ evicted' = evicted \cup {Head(tracked)}
            /\ UNCHANGED asking
       ELSE Asks(t, NotAsking) /\ UNCHANGED <<tracked, bucket, evicted>>
    /\ UNCHANGED <<second, buckets, requests, served, oneByOne>>

SecondPasses ==
    /\ second < MaxSeconds
    /\ second' = second + 1
    /\ UNCHANGED <<tracked, bucket, buckets, asking, requests, served, evicted, oneByOne>>

GuardNext ==
    \/ \E t \in GuardThreads :
          Prune(t) \/ PruneRaises(t) \/ DropStale(t) \/ FetchBucket(t) \/ DropExpired(t)
          \/ Count(t) \/ AppendTime(t) \/ BoundClients(t)
    \/ SecondPasses

-----------------------------------------------------------------------------

(* Never more than limit requests of a client in any window, unless threads
   overlapped or the client's bucket was given up (security_guard.py:65);
   and no more clients are tracked than the bound and the threads allow.   *)
RateIsLimited ==
    /\ oneByOne => \A c \in Clients \ evicted : \A i, j \in DOMAIN served[c] :
          served[c][j] - served[c][i] \in 0..(Window - 1) => j - i < Limit
    /\ Len(tracked) <= MaxTracked + Cardinality({t \in GuardThreads : asking[t].pc # "idle"})
=============================================================================
