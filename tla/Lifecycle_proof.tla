-------------------------- MODULE Lifecycle_proof --------------------------
\* Theorems about Lifecycle and their proofs.
EXTENDS Lifecycle, WellFoundedInduction, TLAPS

USE FilesAssumption, BoundsAssumption

\* A setting that a block mentions has a last mention.
LEMMA LastMention ==
  ASSUME NEW f \in Seq(Directives), NEW name, Mentions(f, name) # {}
  PROVE  Max(Mentions(f, name)) \in Mentions(f, name)
<1> DEFINE is == Mentions(f, name)
           ahead == {Len(f) - i : i \in is}
<1>1. is \subseteq 1..Len(f) /\ Len(f) \in Nat
  BY DEF Mentions
<1>2. ahead \subseteq Nat /\ ahead # {}
  BY <1>1
<1>3. \E m \in ahead : \A n \in ahead : ~(<<n, m>> \in OpToRel(<, Nat))
  <2> HIDE DEF ahead
  <2> QED
    BY <1>2, NatLessThanWellFounded, WFMin
<1>4. \E m \in ahead : \A n \in ahead : ~(n < m)
  <2> HIDE DEF ahead
  <2> QED
    BY <1>2, <1>3 DEF OpToRel
<1>5. PICK i \in is : \A n \in ahead : ~(n < Len(f) - i)
  BY <1>4
<1>6. \A j \in is : i >= j
  <2> SUFFICES ASSUME NEW j \in is PROVE i >= j
    OBVIOUS
  <2>1. ~(Len(f) - j < Len(f) - i)
    BY <1>5
  <2> QED
    BY <2>1, <1>1
<1> QED
  BY <1>6 DEF Max

\* Metering is on or off, whatever a directive says of it, and off by default.
LEMMA Fields == \A c \in Configs : c.metering \in BOOLEAN
<1> SUFFICES ASSUME NEW f \in Files, \A i \in DOMAIN f : Accepted(f[i])
             PROVE  Configured(f).metering \in BOOLEAN
  BY DEF Configs, UnmarshalCaddyfile
<1> DEFINE is == Mentions(f, "metering")
<1>1. Configured(f).metering = IF is = {} THEN DefaultConfig["metering"] ELSE Value(f[Max(is)])
  BY DEF Configured, DefaultConfig, Names, Switches
<1>2. DefaultConfig["metering"] = FALSE
  BY DEF DefaultConfig, Names, Switches
<1>3. ASSUME is # {} PROVE Value(f[Max(is)]) \in BOOLEAN
  <2>1. Max(is) \in is
    BY <1>3, LastMention
  <2>2. f[Max(is)].name = "metering"
    BY <2>1 DEF Mentions
  <2> QED
    BY <2>2 DEF Value, Switches
<1> QED
  BY <1>1, <1>2, <1>3

\* Every variable keeps its type, whatever the step.
LEMMA TypeStep ==
  ASSUME TypeOK, [Next]_vars
  PROVE  TypeOK'
<1> USE DEF TypeOK, Stages, Loops, MoveTo, Goto, reporter
<1>1. CASE UNCHANGED vars
  BY <1>1 DEF vars
<1>2. ASSUME NEW g \in Gens, Provision(g) PROVE TypeOK'
  BY <1>2, Fields DEF Provision
<1>3. ASSUME NEW g \in Gens, Validate(g) \/ LoadFails(g) \/ Unload(g) PROVE TypeOK'
  BY <1>3 DEF Validate, LoadFails, Unload
<1>4. ASSUME NEW g \in Gens, Activate(g) PROVE TypeOK'
  BY <1>4 DEF Activate
<1>5. ASSUME NEW g \in Gens, Cleanup(g) \/ StopReturns(g) PROVE TypeOK'
  BY <1>5 DEF Cleanup, StopReturns
<1>6. ASSUME NEW g \in Gens, Loop(g) PROVE TypeOK'
  BY <1>6 DEF Loop, NewTicker, RetryFailedReports, TickerFires, ProcessCurrentUsage,
              ExitLoop
<1>7. ASSUME NEW g \in Gens, Record(g) PROVE TypeOK'
  BY <1>7 DEF Record
<1> QED
  BY <1>1, <1>2, <1>3, <1>4, <1>5, <1>6, <1>7 DEF Next, Caddy

\* Every variable has its type, for every set of configurations and any number of
\* loads.
THEOREM Typing == Spec => []TypeOK
<1>1. Init => TypeOK
  BY DEF Init, TypeOK, Stages, Loops
<1> QED
  BY <1>1, TypeStep, PTL DEF Spec

----------------------------------------------------------------------------
\* What an instance's stage says of its loop.

\* The flag is set as long as the goroutine is there, there is one if and only if
\* metering is on, and it is told to stop by Cleanup and by nothing else.
Governed(g) ==
  /\ running[g] <=> Reporting(g)
  /\ stage[g] = "new" => loop[g] = "none"
  /\ stage[g] # "new" /\ config[g].metering => loop[g] # "none"
  /\ stage[g] \notin {"stopping", "gone"} => stopChan[g] = "open"
  /\ stage[g] = "stopping" => stopChan[g] = "closed"
  /\ stage[g] = "gone" => stopChan[g] = "closed" \/ ~Reporting(g)
  /\ loop[g] = "ended" => stopChan[g] = "closed"

AllGoverned == \A g \in Gens : Governed(g)

\* A step that concerns another instance.
LEMMA Others ==
  ASSUME NEW g \in Gens, Governed(g),
         running'[g] = running[g], stopChan'[g] = stopChan[g], loop'[g] = loop[g],
         config'[g] = config[g],
         \/ stage'[g] = stage[g]
         \/ stage[g] = "live" /\ stage'[g] = "retired"
  PROVE  Governed(g)'
  BY DEF Governed, Reporting

LEMMA GovernedStep ==
  ASSUME TypeOK, AllGoverned, [Next]_vars
  PROVE  AllGoverned'
<1> SUFFICES ASSUME NEW g \in Gens PROVE Governed(g)'
  BY DEF AllGoverned
<1>0. Governed(g)
  BY DEF AllGoverned
<1> USE DEF TypeOK, MoveTo, Goto, reporter
<1>1. CASE UNCHANGED vars
  BY <1>0, <1>1, Others DEF vars
<1>2. ASSUME NEW h \in Gens, h # g,
             Provision(h) \/ Validate(h) \/ LoadFails(h) \/ Unload(h)
      PROVE  Governed(g)'
  BY <1>0, <1>2, Others DEF Provision, Validate, LoadFails, Unload
<1>3. ASSUME NEW h \in Gens, h # g, Activate(h) PROVE Governed(g)'
  BY <1>0, <1>3, Others DEF Activate
<1>4. ASSUME NEW h \in Gens, h # g, Cleanup(h) \/ StopReturns(h) \/ Record(h)
      PROVE  Governed(g)'
  BY <1>0, <1>4, Others DEF Cleanup, StopReturns, Record
<1>5. ASSUME NEW h \in Gens, h # g, Loop(h) PROVE Governed(g)'
  BY <1>0, <1>5, Others DEF Loop, NewTicker, RetryFailedReports, TickerFires,
                            ProcessCurrentUsage, ExitLoop
<1>6. CASE Provision(g)
  BY <1>0, <1>6, Fields DEF Provision, Governed, Reporting
<1>7. CASE Validate(g) \/ LoadFails(g) \/ Activate(g) \/ Unload(g)
  BY <1>0, <1>7 DEF Validate, LoadFails, Activate, Unload, Governed, Reporting
<1>8. CASE Cleanup(g)
  BY <1>0, <1>8 DEF Cleanup, Governed, Reporting
<1>9. CASE StopReturns(g) \/ Record(g)
  BY <1>0, <1>9 DEF StopReturns, Record, Governed, Reporting
<1>10. CASE Loop(g)
  <2>1. CASE NewTicker(g)
    BY <1>0, <2>1 DEF NewTicker, Governed, Reporting
  <2>2. CASE RetryFailedReports(g) \/ TickerFires(g) \/ ProcessCurrentUsage(g)
    BY <1>0, <2>2 DEF RetryFailedReports, TickerFires, ProcessCurrentUsage, Governed,
                      Reporting
  <2>3. CASE ExitLoop(g)
    BY <1>0, <2>3 DEF ExitLoop, Governed, Reporting
  <2> QED
    BY <1>10, <2>1, <2>2, <2>3 DEF Loop
<1> QED
  BY <1>1, <1>2, <1>3, <1>4, <1>5, <1>6, <1>7, <1>8, <1>9, <1>10 DEF Next, Caddy

\* What the stage says of the loop, always.
LEMMA Governing == Spec => []AllGoverned
<1>1. Init => AllGoverned
  BY DEF Init, AllGoverned, Governed, Reporting, None, DefaultConfig
<1> QED
  BY <1>1, GovernedStep, Typing, PTL DEF Spec

\* No instance that Caddy has done with keeps a loop nobody has told to stop.
THEOREM NoOrphan == Spec => []NoOrphanLoop
<1>1. AllGoverned => NoOrphanLoop
  BY DEF AllGoverned, Governed, NoOrphanLoop, Idle, Reporting
<1> QED
  BY <1>1, Governing, PTL

\* The instance that serves is metered, if it is configured to be.
THEOREM Metered == Spec => []LiveIsMetered
<1>1. AllGoverned => LiveIsMetered
  BY DEF AllGoverned, Governed, LiveIsMetered, Reporting
<1> QED
  BY <1>1, Governing, PTL

----------------------------------------------------------------------------
\* What a block comes to.

\* A setting is what its last directive says, wherever the others are.
LEMMA LastCounts ==
  ASSUME NEW f \in Seq(Directives), NEW name \in Names, NEW i \in Mentions(f, name),
         \A j \in Mentions(f, name) : j <= i
  PROVE  Configured(f)[name] = Value(f[i])
<1>1. Max(Mentions(f, name)) \in Mentions(f, name)
  BY LastMention
<1>2. \A j \in Mentions(f, name) : j \in Nat
  BY DEF Mentions
<1>3. Max(Mentions(f, name)) = i
  <2>1. Max(Mentions(f, name)) >= i
    <3>1. \E m \in Mentions(f, name) : \A j \in Mentions(f, name) : m >= j
      BY <1>2
    <3> QED
      BY <1>2, <3>1 DEF Max
  <2> QED
    BY <1>1, <1>2, <2>1
<1> QED
  BY <1>3 DEF Configured, DefaultConfig

\* Every setting has its default or the value of an accepted directive of its name.
LEMMA SettingFrom ==
  ASSUME NEW f \in Seq(Directives), \A i \in DOMAIN f : Accepted(f[i]),
         NEW name \in Names \cup {"cache_ttl"}
  PROVE  \/ Configured(f)[name] = DefaultConfig[name]
         \/ \E d \in Directives : /\ d.name = name /\ Accepted(d)
                                  /\ Configured(f)[name] = Value(d)
<1>1. CASE Mentions(f, name) = {}
  BY <1>1 DEF Configured, DefaultConfig
<1>2. CASE Mentions(f, name) # {}
  <2>1. Max(Mentions(f, name)) \in Mentions(f, name)
    BY <1>2, LastMention
  <2> DEFINE i == Max(Mentions(f, name))
  <2>2. i \in DOMAIN f /\ f[i].name = name /\ f[i] \in Directives
    BY <2>1 DEF Mentions
  <2>3. Configured(f)[name] = Value(f[i])
    BY <1>2 DEF Configured, DefaultConfig
  <2> QED
    BY <2>2, <2>3
<1> QED
  BY <1>1, <1>2

\* Of any block that parses the switches are switches, the numbers numbers and every
\* other setting a text or its default, a negative number of retries is refused, and
\* no block can set cache_ttl.
THEOREM Parsed ==
  \A c \in Configs :
    /\ \A name \in Switches : c[name] \in BOOLEAN
    /\ \A name \in Numbers : c[name] \in Int
    /\ \A name \in Texts \cup Words : c[name] \in STRING \cup {DefaultText(name)}
    /\ c.max_retries >= 0
    /\ c.cache_ttl = 1800
<1> SUFFICES ASSUME NEW f \in Files, \A i \in DOMAIN f : Accepted(f[i])
             PROVE  /\ \A name \in Switches : Configured(f)[name] \in BOOLEAN
                    /\ \A name \in Numbers : Configured(f)[name] \in Int
                    /\ \A name \in Texts \cup Words :
                         Configured(f)[name] \in STRING \cup {DefaultText(name)}
                    /\ Configured(f).max_retries >= 0
                    /\ Configured(f).cache_ttl = 1800
  BY DEF Configs, UnmarshalCaddyfile
<1>0. \A name \in Names \cup {"cache_ttl"} :
        \/ Configured(f)[name] = DefaultConfig[name]
        \/ \E d \in Directives : /\ d.name = name /\ Accepted(d)
                                 /\ Configured(f)[name] = Value(d)
  BY SettingFrom
<1>1. ASSUME NEW name \in Switches PROVE Configured(f)[name] \in BOOLEAN
  <2>1. name \in Names
    BY DEF Names
  <2>2. DefaultConfig[name] = FALSE
    BY <2>1 DEF DefaultConfig
  <2>3. \A d \in Directives : d.name = name => Value(d) \in BOOLEAN
    BY DEF Value
  <2> QED
    BY <1>0, <2>1, <2>2, <2>3
<1>2. ASSUME NEW name \in Numbers PROVE Configured(f)[name] \in Int
  <2>1. name \notin Switches /\ name \in Names
    BY DEF Names, Numbers, Switches
  <2>2. DefaultConfig[name] = DefaultNumber(name) /\ DefaultNumber(name) \in Int
    BY <2>1 DEF DefaultConfig, DefaultNumber, Numbers, Names
  <2>3. \A d \in Directives : d.name = name => Value(d) \in Int
    BY <2>1 DEF Value, Directives
  <2> QED
    BY <1>0, <2>1, <2>2, <2>3
<1>3. ASSUME NEW name \in Texts \cup Words
      PROVE  Configured(f)[name] \in STRING \cup {DefaultText(name)}
  <2>1. name \notin Switches \cup Numbers \cup {"cache_ttl"} /\ name \in Names
    BY DEF Names, Numbers, Switches, Texts, Words
  <2>2. DefaultConfig[name] = DefaultText(name)
    BY <2>1 DEF DefaultConfig
  <2>3. \A d \in Directives : d.name = name => Value(d) \in STRING
    BY <2>1 DEF Value, Directives
  <2> QED
    BY <1>0, <2>1, <2>2, <2>3
<1>4. Configured(f).max_retries >= 0
  <2>1. "max_retries" \in Names /\ "max_retries" \in Numbers /\ "max_retries" \notin Switches
    BY DEF Names, Numbers, Switches
  <2>2. DefaultConfig["max_retries"] = 3
    BY <2>1 DEF DefaultConfig, DefaultNumber
  <2>3. \A d \in Directives : d.name = "max_retries" /\ Accepted(d) => Value(d) >= 0
    BY <2>1 DEF Value, Accepted
  <2> QED
    BY <1>0, <2>1, <2>2, <2>3
<1>5. Configured(f).cache_ttl = 1800
  <2>1. "cache_ttl" \notin Names
    BY DEF Names, Numbers, Switches, Texts, Words
  <2>2. DefaultConfig["cache_ttl"] = 1800
    BY <2>1 DEF DefaultConfig, DefaultNumber, Names, Switches
  <2>3. \A d \in Directives : Accepted(d) => d.name # "cache_ttl"
    BY <2>1 DEF Accepted
  <2> QED
    BY <1>0, <2>2, <2>3
<1> QED
  BY <1>1, <1>2, <1>3, <1>4, <1>5
=============================================================================
