------------------------ MODULE ConnectionAdmission ------------------------
(***************************************************************************)
(* The life of a pgwire connection in dataglot-server: the accept-path     *)
(* limits of rate_limit.rs (token bucket, global and per-IP ceilings, the  *)
(* per-identity ceiling), the active-connection gauge and the session      *)
(* registry, as handle_connection of server.rs drives them and as their    *)
(* guards give everything back.                                            *)
(*                                                                         *)
(* Every lock and every atomic is a step of its own: many connection tasks *)
(* run these steps interleaved.  Tokens are counted in units of one        *)
(* Minute-th, so that the arithmetic is exact; a tick of the clock adds    *)
(* RateCap of them.                                                        *)
(***************************************************************************)
EXTENDS Naturals, FiniteSets, FiniteSetsExt

CONSTANTS
    Conns,        \* connection attempts
    Ips, Users,   \* source addresses and startup user names
    Arrivals,     \* [ip, user]: from where and as whom each attempt comes
    Settings,     \* the sets of limits a [rate_limit] block may set
    GlobalMax,    \* max_connections
    IpMax,        \* max_connections_per_ip
    UserMax,      \* max_connections_per_identity
    RateCap,      \* max_new_connections_per_ip_per_minute
    Minute,       \* ticks of the clock in a minute
    MaxTime       \* bound: the clock stops here

AllLimits == {"rate", "global", "ip", "identity"}

AdmissionBounds ==
    /\ Settings \subseteq SUBSET AllLimits
    /\ Arrivals \subseteq [ip : [Conns -> Ips], user : [Conns -> Users]]
    /\ {GlobalMax, IpMax, UserMax, MaxTime} \subseteq Nat
    /\ {RateCap, Minute} \subseteq Nat \ {0}

VARIABLES
    now,       \* the clock
    bucket,    \* each address's TokenBucket: tokens and the last refill
    free,      \* permits left in the global semaphore
    perIp,     \* live connections counted per address
    perUser,   \* live connections counted per identity
    gauge,     \* dataglot_pgwire_connections_active
    sessions,  \* the session registry: registered connections
    named,     \* sessions whose user and org are set
    pc,        \* where each connection's task is
    ip, user,  \* of each connection
    enabled,   \* the limits that are set
    stamp,     \* the clock reading each attempt took before it locked the bucket
    passed,    \* history: the attempts the bucket let pass, and the time they were made
    rewound    \* history: a bucket's last refill was moved back in time

limits == <<bucket, free, perIp, perUser>>
views == <<gauge, sessions, named>>
history == <<passed, rewound>>
given == <<enabled, ip, user>>
vars == <<now, limits, views, pc, given, stamp, history>>

Phases == {"idle", "arrived", "rated", "slotted", "overIp", "admitted", "gauged",
           "registered", "identified", "open", "dropIdentity", "dropSession",
           "dropGauge", "dropIp", "dropGlobal", "done"}

\* The type of every variable: the counters stay within the configured ceilings.
TypeOK ==
    /\ now \in 0 .. MaxTime
    /\ bucket \in [Ips -> [tokens : 0 .. RateCap * Minute, last : 0 .. MaxTime]]
    /\ free \in 0 .. GlobalMax
    /\ perIp \in [Ips -> 0 .. IpMax] /\ perUser \in [Users -> 0 .. UserMax]
    /\ gauge \in 0 .. Cardinality(Conns)
    /\ sessions \subseteq Conns /\ named \subseteq Conns
    /\ pc \in [Conns -> Phases] /\ ip \in [Conns -> Ips] /\ user \in [Conns -> Users]
    /\ stamp \in [Conns -> 0 .. MaxTime] /\ enabled \subseteq AllLimits
    /\ passed \subseteq Conns \X 0 .. MaxTime /\ rewound \in BOOLEAN

Init ==
    /\ now = 0
    /\ bucket = [i \in Ips |-> [tokens |-> RateCap * Minute, last |-> 0]]
    /\ free = GlobalMax
    /\ perIp = [i \in Ips |-> 0] /\ perUser = [u \in Users |-> 0]
    /\ gauge = 0 /\ sessions = {} /\ named = {}
    /\ pc = [c \in Conns |-> "idle"]
    /\ \E a \in Arrivals : ip = a.ip /\ user = a.user
    /\ enabled \in Settings
    /\ stamp = [c \in Conns |-> 0]
    /\ passed = {} /\ rewound = FALSE

Goto(c, p) == pc' = [pc EXCEPT ![c] = p]
At(c, p) == pc[c] = p

\* A counted ceiling is reached.
Full(count, max) == count >= max

-----------------------------------------------------------------------------
(* try_admit.                                                              *)

\* The accept loop spawns the connection's task, which reads the clock for try_admit.
Accept(c) ==
    /\ At(c, "idle")
    /\ stamp' = [stamp EXCEPT ![c] = now]
    /\ Goto(c, "arrived")
    /\ UNCHANGED <<now, limits, views, given, history>>

\* Mutant: every attempt is credited the time since the start.
Refill_SinceStart(b, t) == Min({b.tokens + t * RateCap, RateCap * Minute})
\* The refill for the time gone by, none if the reading is older than the last one,
\* capped at the capacity.
Refill(b, t) ==
    LET elapsed == IF t > b.last THEN t - b.last ELSE 0
    IN Min({b.tokens + elapsed * RateCap, RateCap * Minute})

\* Under the lock of the buckets, with the clock read before it: refilled, then one
\* token taken or the attempt refused; the last refill is the reading either way.
RateCheck(c) ==
    LET i == ip[c]
        tokens == Refill(bucket[i], stamp[c])
    IN /\ At(c, "arrived")
       /\ \/ /\ "rate" \notin enabled
             /\ Goto(c, "rated")
             /\ UNCHANGED <<bucket, history>>
          \/ /\ "rate" \in enabled /\ tokens < Minute
             /\ bucket' = [bucket EXCEPT ![i] = [tokens |-> tokens, last |-> stamp[c]]]
             /\ rewound' = (rewound \/ stamp[c] < bucket[i].last)
             /\ Goto(c, "done")
             /\ UNCHANGED passed
          \/ /\ "rate" \in enabled /\ tokens >= Minute
             /\ bucket' = [bucket EXCEPT ![i] = [tokens |-> tokens - Minute, last |-> stamp[c]]]
             /\ rewound' = (rewound \/ stamp[c] < bucket[i].last)
             /\ passed' = passed \cup {<<c, stamp[c]>>}
             /\ Goto(c, "rated")
       /\ stamp' = [stamp EXCEPT ![c] = 0]
       /\ UNCHANGED <<now, free, perIp, perUser, views, given>>

\* The global semaphore's permit, or a refusal.
TakeGlobal(c) ==
    /\ At(c, "rated")
    /\ \/ /\ "global" \notin enabled
          /\ Goto(c, "slotted")
          /\ UNCHANGED free
       \/ /\ "global" \in enabled /\ free = 0
          /\ Goto(c, "done")
          /\ UNCHANGED free
       \/ /\ "global" \in enabled /\ free > 0
          /\ free' = free - 1
          /\ Goto(c, "slotted")
    /\ UNCHANGED <<now, bucket, perIp, perUser, views, given, stamp, history>>

\* The count of the address, or a refusal that still holds the global permit.
AfterIpRefusal_Forgets == "done"    \* mutant: the permit is not given back
AfterIpRefusal == "overIp"
TakeIp(c) ==
    /\ At(c, "slotted")
    /\ \/ /\ "ip" \notin enabled
          /\ Goto(c, "admitted")
          /\ UNCHANGED perIp
       \/ /\ "ip" \in enabled /\ Full(perIp[ip[c]], IpMax)
          /\ Goto(c, AfterIpRefusal)
          /\ UNCHANGED perIp
       \/ /\ "ip" \in enabled /\ ~Full(perIp[ip[c]], IpMax)
          /\ perIp' = [perIp EXCEPT ![ip[c]] = @ + 1]
          /\ Goto(c, "admitted")
    /\ UNCHANGED <<now, bucket, free, perUser, views, given, stamp, history>>

-----------------------------------------------------------------------------
(* handle_connection.                                                      *)

GaugeUp(c) ==
    /\ At(c, "admitted")
    /\ gauge' = gauge + 1
    /\ Goto(c, "gauged")
    /\ UNCHANGED <<now, limits, sessions, named, given, stamp, history>>

Register(c) ==
    /\ At(c, "gauged")
    /\ sessions' = sessions \cup {c}
    /\ Goto(c, "registered")
    /\ UNCHANGED <<now, limits, gauge, named, given, stamp, history>>

\* The startup message: the identity limiter counts the user, or refuses.
Identify(c) ==
    /\ At(c, "registered")
    /\ \/ /\ "identity" \notin enabled
          /\ Goto(c, "identified")
          /\ UNCHANGED perUser
       \/ /\ "identity" \in enabled /\ Full(perUser[user[c]], UserMax)
          /\ Goto(c, "dropSession")
          /\ UNCHANGED perUser
       \/ /\ "identity" \in enabled /\ ~Full(perUser[user[c]], UserMax)
          /\ perUser' = [perUser EXCEPT ![user[c]] = @ + 1]
          /\ Goto(c, "identified")
    /\ UNCHANGED <<now, bucket, free, perIp, views, given, stamp, history>>

\* Authentication succeeded: the startup observer names the session.
SetIdentity(c) ==
    /\ At(c, "identified")
    /\ named' = named \cup {c}
    /\ Goto(c, "open")
    /\ UNCHANGED <<now, limits, gauge, sessions, given, stamp, history>>

\* Authentication or startup failed, the client went away at any point of the
\* handshake or the session, or the handler panicked: the guards unwind.
Unwind(c) ==
    /\ \/ /\ pc[c] \in {"identified", "open"}
          /\ Goto(c, "dropIdentity")
       \/ /\ At(c, "registered")
          /\ Goto(c, "dropSession")
    /\ UNCHANGED <<now, limits, views, given, stamp, history>>

-----------------------------------------------------------------------------
(* The guards, in the order they drop.                                     *)

\* IdentityGuard, held by the pgwire handler factory.
DropIdentity(c) ==
    /\ At(c, "dropIdentity")
    /\ perUser' = IF "identity" \in enabled THEN [perUser EXCEPT ![user[c]] = @ - 1] ELSE perUser
    /\ Goto(c, "dropSession")
    /\ UNCHANGED <<now, bucket, free, perIp, views, given, stamp, history>>

\* SessionGuard.
Deregistered(c) == named \ {c}
DropSession(c) ==
    /\ At(c, "dropSession")
    /\ sessions' = sessions \ {c}
    /\ named' = Deregistered(c)
    /\ Goto(c, "dropGauge")
    /\ UNCHANGED <<now, limits, gauge, given, stamp, history>>

\* ConnectionGuard.
DropGauge(c) ==
    /\ At(c, "dropGauge")
    /\ gauge' = gauge - 1
    /\ Goto(c, "dropIp")
    /\ UNCHANGED <<now, limits, sessions, named, given, stamp, history>>

\* ConnectionPermit: first the count of the address ...
DropIp(c) ==
    /\ At(c, "dropIp")
    /\ perIp' = IF "ip" \in enabled THEN [perIp EXCEPT ![ip[c]] = @ - 1] ELSE perIp
    /\ Goto(c, "dropGlobal")
    /\ UNCHANGED <<now, bucket, free, perUser, views, given, stamp, history>>

\* ... then the semaphore's permit; a per-IP refusal gives the same permit back.
DropGlobal(c) ==
    /\ pc[c] \in {"dropGlobal", "overIp"}
    /\ free' = IF "global" \in enabled THEN free + 1 ELSE free
    /\ Goto(c, "done")
    /\ UNCHANGED <<now, bucket, perIp, perUser, views, given, stamp, history>>

Tick ==
    /\ now < MaxTime
    /\ now' = now + 1
    /\ UNCHANGED <<limits, views, pc, given, stamp, history>>

Next ==
    \/ \E c \in Conns :
          \/ Accept(c) \/ RateCheck(c) \/ TakeGlobal(c) \/ TakeIp(c) \/ GaugeUp(c)
          \/ Register(c) \/ Identify(c) \/ SetIdentity(c) \/ Unwind(c) \/ DropIdentity(c)
          \/ DropSession(c) \/ DropGauge(c) \/ DropIp(c) \/ DropGlobal(c)
    \/ Tick

Spec == Init /\ [][Next]_vars

-----------------------------------------------------------------------------
(* What the limits promise.                                                *)

\* The phases in which a connection holds each of its reservations.
HoldsGlobal == {"slotted", "overIp", "admitted", "gauged", "registered", "identified", "open",
                "dropIdentity", "dropSession", "dropGauge", "dropIp", "dropGlobal"}
HoldsIp == HoldsGlobal \ {"slotted", "overIp", "dropGlobal"}
HoldsIdentity == {"identified", "open", "dropIdentity"}
HoldsSession == {"registered", "identified", "open", "dropIdentity", "dropSession"}
HoldsGauge == HoldsSession \cup {"gauged", "dropGauge"}
In(S) == {c \in Conns : pc[c] \in S}

\* "the gauge count and the session list stay consistent": both count the same
\* connections but for those between the two guards, and only live sessions are named.
ViewsAgree ==
    /\ sessions = In(HoldsSession)
    /\ gauge = Cardinality(In(HoldsGauge))
    /\ named \subseteq sessions

\* Every reservation is held by exactly one live connection, so the ceilings bound
\* the connections themselves and a finished connection keeps no slot, whatever
\* was refused on the way and wherever its task ended; the gauge and the session
\* list count the same connections.
NoSlotLeaks ==
    /\ "global" \in enabled => free + Cardinality(In(HoldsGlobal)) = GlobalMax
    /\ "ip" \in enabled => \A i \in Ips :
          perIp[i] = Cardinality({c \in In(HoldsIp) : ip[c] = i}) /\ perIp[i] <= IpMax
    /\ "identity" \in enabled => \A u \in Users :
          perUser[u] = Cardinality({c \in In(HoldsIdentity) : user[c] = u}) /\ perUser[u] <= UserMax
    /\ ViewsAgree

\* Of the attempts made between two times, an address passes at most the burst and the
\* refill of that time.
WithinRate ==
    LET times == {p[2] : p \in passed}
        between(i, s, t) == {p \in passed : ip[p[1]] = i /\ p[2] \in s .. t}
    IN  \A i \in Ips : \A s, t \in times : s <= t =>
            Cardinality(between(i, s, t)) <= RateCap + (RateCap * (t - s)) \div Minute

\* The token bucket bounds the rate of every address, as long as the tasks lock the
\* bucket in the order in which they read the clock.
RateBounded == "rate" \in enabled /\ ~rewound => WithinRate

\* The same with no condition on the order: what the module's documentation says.
RateAlwaysBounded == "rate" \in enabled => WithinRate
=============================================================================
