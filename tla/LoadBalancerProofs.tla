------------------------- MODULE LoadBalancerProofs -------------------------
(***************************************************************************)
(* Proofs about LoadBalancer, for any configurations, addresses, clients   *)
(* and server behaviours: an inductive invariant, which the start, a       *)
(* reload, the steps of the health watcher and the steps of a request      *)
(* establish and preserve, and what follows from it.                       *)
(***************************************************************************)
EXTENDS LoadBalancer, TLAPS

(* Why a pass that collects w may have left out a cell with this history.  *)
Missed(w, past) ==
  IF w = "Healthy" THEN past # {"Healthy"} ELSE past \cap {"Unresponsive", "Recovered"} # {}

(* What holds of a request whose future is scanning the cells of its pool: *)
(* the history contains the present, and knows of a recovery; an address   *)
(* is collected only if it had the wanted healthiness, and left out only   *)
(* if its history excuses that; and the second pass started because no     *)
(* cell was steadily Healthy.                                              *)
Scanned(r) ==
  LET g == pool[r][1]
      p == pool[r][2]
  IN /\ pos[r] >= 1
     /\ \A i \in Positions(g, p) :
          /\ healthiness[<<g, p, i>>] \in seen[r][i]
          /\ healthiness[<<g, p, i>>] = "Healthy" /\ "Slow" \in seen[r][i] => "Recovered" \in seen[r][i]
     /\ \A i \in working[r] : wanted[r] \in seen[r][i]
     /\ \A i \in Positions(g, p) : i < pos[r] /\ i \notin working[r] => Missed(wanted[r], seen[r][i])
     /\ wanted[r] = "Slow" => \A i \in Positions(g, p) : seen[r][i] # {"Healthy"}

(* What holds of a request once a pass is over.                            *)
Exact(r) ==
  \A i \in DOMAIN seen[r] :
    /\ wanted[r] = "Slow" => seen[r][i] # {"Healthy"}
    /\ IF i \in working[r] THEN wanted[r] \in seen[r][i] ELSE Missed(wanted[r], seen[r][i])

(* The inductive invariant of one client connection.                       *)
ClientInv(r) ==
  /\ pc[r] = "idle" => /\ wanted[r] = "Healthy" /\ pos[r] = 1
                       /\ working[r] = {} /\ chosen[r] = 0
  /\ pc[r] # "done" => response[r] = "none"
  /\ pc[r] \in {"scan", "forward"} => pool[r] # NoPool
  /\ pc[r] = "scan" => Scanned(r)
  /\ pc[r] = "forward" => Exact(r) /\ chosen[r] \in working[r]
  /\ response[r] = "no_working_address" =>
       \A i \in DOMAIN seen[r] : seen[r][i] \cap {"Unresponsive", "Recovered"} # {}

IInv == TypeOK /\ NoLostHealthUpdate /\ \A r \in Client : ClientInv(r)
-----------------------------------------------------------------------------
(* Numbers, and the last position of a sequence.                           *)
LEMMA Numbers ==
  \A i \in Nat : /\ i + 1 >= 1 /\ (i >= 1 => ~(i < 1))
                 /\ \A j \in Nat : i < j + 1 => i < j \/ i = j
OBVIOUS

LEMMA LastPosition == ASSUME NEW T, NEW s \in Seq(T) \ {<<>>} PROVE Len(s) \in DOMAIN s
OBVIOUS

(* A triple is a cell of a generation exactly if it names a pool of that   *)
(* generation and a position in it.                                        *)
LEMMA CellsOfElement ==
  ASSUME NEW ld, NEW g, NEW c
  PROVE  c \in CellsOf(ld, g) <=>
           \E p \in DOMAIN ld[g].backend_pools :
             \E i \in DOMAIN ld[g].backend_pools[p].addresses : c = <<g, p, i>>
BY DEF CellsOf

(* The cells of all generations, in the same terms.                        *)
LEMMA CellsElement ==
  ASSUME NEW ld, NEW c
  PROVE  c \in Cells(ld) <=>
           \E g \in DOMAIN ld : \E p \in DOMAIN ld[g].backend_pools :
             \E i \in DOMAIN ld[g].backend_pools[p].addresses : c = <<g, p, i>>
BY CellsOfElement DEF Cells

(* The positions of a pool of a stored configuration are numbers from 1.   *)
LEMMA PositionsAreNumbers ==
  ASSUME RuntimeConfigTypeOK, NEW g \in DOMAIN loaded,
         NEW p \in DOMAIN loaded[g].backend_pools
  PROVE  /\ Positions(g, p) = 1 .. Len(Pool(g, p).addresses)
         /\ Len(Pool(g, p).addresses) \in Nat
         /\ g \in Nat /\ p \in Nat /\ g # 0 /\ p # 0
         /\ \A i \in Positions(g, p) : <<g, p, i>> \in DOMAIN healthiness
<1>1. loaded[g] \in TomlConfig
  BY TomlConfigsAssumption DEF RuntimeConfigTypeOK
<1>2. Pool(g, p) \in BackendPoolConfig
  BY <1>1 DEF TomlConfig, Pool
<1>3. /\ Positions(g, p) = 1 .. Len(Pool(g, p).addresses)
      /\ Len(Pool(g, p).addresses) \in Nat
  BY <1>2 DEF BackendPoolConfig, Positions
<1>4. g \in Nat /\ p \in Nat /\ g # 0 /\ p # 0
  BY <1>1 DEF RuntimeConfigTypeOK, TomlConfig
<1>5. \A i \in Positions(g, p) : <<g, p, i>> \in DOMAIN healthiness
  BY CellsElement DEF RuntimeConfigTypeOK, Positions, Pool
<1> QED BY <1>3, <1>4, <1>5

(* Storing a configuration keeps the generations there were.               *)
LEMMA StoreKeepsGenerations ==
  ASSUME RuntimeConfigTypeOK, NEW toml \in TomlConfigs, StoreConfig(toml)
  PROVE  /\ loaded' \in Seq(TomlConfigs) \ {<<>>}
         /\ DOMAIN loaded \subseteq DOMAIN loaded'
         /\ \A g \in DOMAIN loaded : loaded'[g] = loaded[g]
BY DEF RuntimeConfigTypeOK, StoreConfig

(* Storing a configuration keeps the cells there were, with their values.  *)
LEMMA StoreKeepsCells ==
  ASSUME RuntimeConfigTypeOK, NEW toml \in TomlConfigs, StoreConfig(toml)
  PROVE  /\ RuntimeConfigTypeOK'
         /\ \A c \in DOMAIN healthiness : c \in DOMAIN healthiness' /\ healthiness'[c] = healthiness[c]
<1>1. \A c \in Cells(loaded) : c \in Cells(loaded')
  BY StoreKeepsGenerations, CellsElement
<1>2. healthiness' \in [Cells(loaded') -> Healthiness]
  BY DEF RuntimeConfigTypeOK, StoreConfig, InitialHealthiness, Healthiness
<1> QED BY <1>1, <1>2, StoreKeepsGenerations DEF RuntimeConfigTypeOK, StoreConfig

(* Positions depend on the stored configurations only.                     *)
LEMMA PositionsFrame ==
  ASSUME loaded' = loaded
  PROVE  \A g, p : Positions(g, p)' = Positions(g, p)
BY DEF Positions, Pool

(* A request keeps its type when neither it nor the configurations change. *)
LEMMA RequestTypeFrame ==
  ASSUME NEW r \in Client, RequestTypeOK(r), loaded' = loaded, pool'[r] = pool[r],
         working'[r] = working[r], chosen'[r] = chosen[r], seen'[r] = seen[r]
  PROVE  RequestTypeOK(r)'
BY PositionsFrame DEF RequestTypeOK

(* A history only grows, and what it excuses stays excused.                *)
LEMMA MissedGrows ==
  ASSUME NEW w, NEW past, NEW more, past # {}, past \subseteq more, Missed(w, past)
  PROVE  Missed(w, more)
BY DEF Missed

(* One more value in the history of a cell.                                *)
LEMMA RecordedHas ==
  \A past, h :
    /\ past \subseteq Recorded(past, h) /\ h \in Recorded(past, h)
    /\ h = "Healthy" /\ "Slow" \in Recorded(past, h) => "Recovered" \in Recorded(past, h)
    /\ past \in SUBSET (Healthiness \cup {"Recovered"}) /\ h \in Healthiness =>
         Recorded(past, h) \in SUBSET (Healthiness \cup {"Recovered"})
BY DEF Recorded

(* A history that starts is the present value.                             *)
LEMMA RecordedFirst == \A h : Recorded({}, h) = {h}
BY DEF Recorded

(* A pass that reads h where it wants w may leave the cell out.            *)
LEMMA ReadingMisses ==
  \A w \in {"Healthy", "Slow"}, past \in SUBSET (Healthiness \cup {"Recovered"}) : \A h :
    /\ h # w /\ h \in past
    /\ h = "Healthy" /\ "Slow" \in past => "Recovered" \in past
    /\ w = "Slow" => past # {"Healthy"}
    => Missed(w, past)
<1> SUFFICES ASSUME NEW w \in {"Healthy", "Slow"}, NEW past \in SUBSET (Healthiness \cup {"Recovered"}),
                    NEW h, h # w, h \in past,
                    h = "Healthy" /\ "Slow" \in past => "Recovered" \in past,
                    w = "Slow" => past # {"Healthy"}
             PROVE  Missed(w, past)
  BY Zenon
<1>1. CASE w = "Healthy"
  BY <1>1 DEF Missed
<1>2. CASE w = "Slow"
  <2>1. SUFFICES ASSUME "Unresponsive" \notin past, "Recovered" \notin past PROVE FALSE
    BY <1>2 DEF Missed
  <2>2. \A v \in past : v \in {"Healthy", "Slow"}
    BY <2>1 DEF Healthiness
  <2>3. h = "Healthy" /\ "Slow" \notin past
    BY <1>2, <2>1, <2>2
  <2>4. \A v \in past : v = "Healthy"
    BY <2>2, <2>3, Zenon
  <2> QED BY <1>2, <2>3, <2>4, Zenon
<1> QED BY <1>1, <1>2

(* A scan that has made no step, of a pool whose cells have kept their     *)
(* values.                                                                 *)
LEMMA ScannedFrame ==
  ASSUME NEW r \in Client, NEW g, NEW p, Scanned(r), pool[r] = <<g, p>>,
         pool'[r] = pool[r], wanted'[r] = wanted[r], pos'[r] = pos[r],
         working'[r] = working[r], seen'[r] = seen[r],
         Positions(g, p)' = Positions(g, p),
         \A i \in Positions(g, p) : healthiness'[<<g, p, i>>] = healthiness[<<g, p, i>>]
  PROVE  Scanned(r)'
<1>1. pool[r][1] = g /\ pool[r][2] = p /\ pool'[r][1] = g /\ pool'[r][2] = p
  OBVIOUS
<1> QED BY <1>1 DEF Scanned

(* A store to a cell of the pool being scanned, added to the history of    *)
(* the scan.                                                               *)
LEMMA ScannedAfterStore ==
  ASSUME NEW r \in Client, NEW g, NEW p, NEW k \in Positions(g, p), NEW h,
         Scanned(r), pool[r] = <<g, p>>, working[r] \subseteq Positions(g, p),
         pool'[r] = pool[r], wanted'[r] = wanted[r], pos'[r] = pos[r], working'[r] = working[r],
         Positions(g, p)' = Positions(g, p),
         healthiness'[<<g, p, k>>] = h,
         \A i \in Positions(g, p) \ {k} : healthiness'[<<g, p, i>>] = healthiness[<<g, p, i>>],
         seen'[r][k] = Recorded(seen[r][k], h),
         \A i \in Positions(g, p) \ {k} : seen'[r][i] = seen[r][i]
  PROVE  Scanned(r)'
<1>1. pool[r][1] = g /\ pool[r][2] = p /\ pool'[r][1] = g /\ pool'[r][2] = p
  OBVIOUS
<1>2. \A i \in Positions(g, p) :
        /\ healthiness[<<g, p, i>>] \in seen[r][i]
        /\ healthiness[<<g, p, i>>] = "Healthy" /\ "Slow" \in seen[r][i] => "Recovered" \in seen[r][i]
  BY <1>1, Zenon DEF Scanned
<1>3. /\ h \in seen'[r][k] /\ seen[r][k] \subseteq seen'[r][k]
      /\ h = "Healthy" /\ "Slow" \in seen'[r][k] => "Recovered" \in seen'[r][k]
  <2> DEFINE past == seen[r][k]
  <2>1. /\ past \subseteq Recorded(past, h) /\ h \in Recorded(past, h)
        /\ h = "Healthy" /\ "Slow" \in Recorded(past, h) => "Recovered" \in Recorded(past, h)
    BY RecordedHas
  <2> QED BY <2>1, Zenon
<1>4. \A i \in Positions(g, p) :
        /\ healthiness'[<<g, p, i>>] \in seen'[r][i]
        /\ healthiness'[<<g, p, i>>] = "Healthy" /\ "Slow" \in seen'[r][i] => "Recovered" \in seen'[r][i]
  BY <1>2, <1>3, Zenon
<1>5. \A i \in Positions(g, p) : seen[r][i] # {} /\ seen[r][i] \subseteq seen'[r][i]
  BY <1>2, <1>3, Zenon
<1>6. \A i \in working[r] : wanted[r] \in seen'[r][i]
  BY <1>5, Zenon DEF Scanned
<1>7. \A i \in Positions(g, p) : i < pos[r] /\ i \notin working[r] => Missed(wanted[r], seen'[r][i])
  BY <1>1, <1>5, MissedGrows, Zenon DEF Scanned
<1>8. wanted[r] = "Slow" => \A i \in Positions(g, p) : seen'[r][i] # {"Healthy"}
  <2>1. wanted[r] = "Slow" => \A i \in Positions(g, p) : seen[r][i] # {"Healthy"}
    BY <1>1, Zenon DEF Scanned
  <2> QED BY <1>5, <2>1
<1>9. pos[r] >= 1
  BY Zenon DEF Scanned
<1> QED BY <1>1, <1>4, <1>6, <1>7, <1>8, <1>9, Zenon DEF Scanned

(* The invariant of a connection speaks of its own request, the pools and  *)
(* the cells only: a step that touches none of them preserves it.          *)
LEMMA ClientInvFrame ==
  ASSUME NEW r \in Client, ClientInv(r), loaded' = loaded, healthiness' = healthiness,
         pc'[r] = pc[r], pool'[r] = pool[r], wanted'[r] = wanted[r], pos'[r] = pos[r],
         working'[r] = working[r], chosen'[r] = chosen[r], response'[r] = response[r],
         seen'[r] = seen[r]
  PROVE  ClientInv(r)'
<1>1. \A g, p : Positions(g, p)' = Positions(g, p)
  BY PositionsFrame
<1>2. Scanned(r)' <=> Scanned(r)
  BY <1>1 DEF Scanned
<1> QED BY <1>2, Zenon DEF ClientInv, Exact

(* The invariant holds initially.                                          *)
LEMMA InitIInv == ASSUME Init PROVE IInv
<1> USE DEF Init, RuntimeConfigInit, HealthInit, ServerInit
<1>1. RuntimeConfigTypeOK
  <2>1. PICK toml \in TomlConfigs : loaded = <<toml>>
    OBVIOUS
  <2>2. loaded \in Seq(TomlConfigs) \ {<<>>}
    BY <2>1
  <2>3. healthiness \in [Cells(loaded) -> Healthiness]
    BY DEF InitialHealthiness, Healthiness
  <2> QED BY <2>2, <2>3 DEF RuntimeConfigTypeOK
<1>2. HealthTypeOK
  BY DEF HealthTypeOK
<1>3. ServerTypeOK
  BY DEF ServerTypeOK, RequestTypeOK, NoPool
<1>4. NoLostHealthUpdate
  BY DEF NoLostHealthUpdate
<1>5. \A r \in Client : ClientInv(r)
  BY DEF ClientInv
<1> QED BY <1>1, <1>2, <1>3, <1>4, <1>5 DEF IInv, TypeOK

(* A reload preserves the invariant: whoever holds an earlier generation   *)
(* keeps its pools and its cells.                                          *)
LEMMA ReloadIInv == ASSUME IInv, ReloadConfig PROVE IInv'
<1>1. PICK toml \in TomlConfigs : StoreConfig(toml) /\ UNCHANGED <<healthVars, serverVars>>
  BY DEF ReloadConfig
<1>inv. /\ RuntimeConfigTypeOK /\ HealthTypeOK /\ ServerTypeOK /\ NoLostHealthUpdate
       /\ \A s \in Client : ClientInv(s)
  BY DEF IInv, TypeOK
<1>2. RuntimeConfigTypeOK'
  BY <1>inv, <1>1, StoreKeepsCells
<1>3. /\ \A g \in DOMAIN loaded : g \in DOMAIN loaded' /\ loaded'[g] = loaded[g]
      /\ \A c \in DOMAIN healthiness : c \in DOMAIN healthiness' /\ healthiness'[c] = healthiness[c]
  BY <1>inv, <1>1, StoreKeepsCells, StoreKeepsGenerations
<1>4. HealthTypeOK'
  <2>1. DOMAIN previous \subseteq Cells(loaded')
    BY <1>inv, <1>2, <1>3 DEF HealthTypeOK, RuntimeConfigTypeOK
  <2> QED BY <1>inv, <1>1, <2>1 DEF HealthTypeOK, healthVars
<1>5. ServerTypeOK'
  <2>1. ASSUME NEW r \in Client PROVE RequestTypeOK(r)'
    BY <1>inv, <1>1, <1>3, Zenon DEF ServerTypeOK, RequestTypeOK, serverVars, Positions, Pool
  <2> QED BY <1>inv, <1>1, <2>1, Zenon DEF ServerTypeOK, serverVars
<1>6. NoLostHealthUpdate'
  BY <1>inv, <1>1, <1>3 DEF NoLostHealthUpdate, healthVars, HealthTypeOK, RuntimeConfigTypeOK
<1>7. ASSUME NEW r \in Client PROVE ClientInv(r)'
  <2>1. UNCHANGED <<pc, pool, wanted, pos, working, chosen, response, seen>>
    BY <1>1 DEF serverVars
  <2>2. ClientInv(r)
    BY <1>inv, Zenon
  <2>3. ASSUME pc[r] = "scan" PROVE Scanned(r)'
    <3> DEFINE g == pool[r][1]
               p == pool[r][2]
    <3>1. Scanned(r) /\ pool[r] # NoPool
      BY <2>2, <2>3 DEF ClientInv
    <3>2. g \in DOMAIN loaded /\ p \in DOMAIN loaded[g].backend_pools
      BY <1>inv, <3>1 DEF ServerTypeOK, RequestTypeOK
    <3>3. Positions(g, p)' = Positions(g, p)
      BY <1>3, <3>2, <2>1 DEF Positions, Pool
    <3>4. \A i \in Positions(g, p) : healthiness'[<<g, p, i>>] = healthiness[<<g, p, i>>]
      BY <1>inv, <1>3, <3>2, PositionsAreNumbers
    <3>5. pool[r] = <<g, p>>
      BY <1>inv DEF ServerTypeOK
    <3> QED BY <2>1, <3>1, <3>3, <3>4, <3>5, ScannedFrame
  <2> QED BY <2>1, <2>2, <2>3, Zenon DEF ClientInv, Exact
<1> QED BY <1>2, <1>4, <1>5, <1>6, <1>7 DEF IInv, TypeOK

(* The steps of the watcher that store nothing.                            *)
LEMMA WatcherMovesIInv ==
  ASSUME IInv, LoadInterval \/ SleepOver \/ StartChecks \/ SecondTick, UNCHANGED serverVars
  PROVE  IInv'
<1>inv. /\ RuntimeConfigTypeOK /\ HealthTypeOK /\ ServerTypeOK /\ NoLostHealthUpdate
       /\ \A s \in Client : ClientInv(s)
  BY DEF IInv, TypeOK
<1>1. UNCHANGED <<configVars, servers, serverVars>>
  BY DEF LoadInterval, SleepOver, StartChecks, SecondTick, configVars
<1>2. RuntimeConfigTypeOK'
  BY <1>inv, <1>1 DEF RuntimeConfigTypeOK, configVars
<1>3. HealthTypeOK' /\ NoLostHealthUpdate'
  <2>1. CASE UNCHANGED previous /\ watcher' \in {"interval", "sleep", "tick"}
    BY <1>inv, <1>1, <2>1 DEF HealthTypeOK, NoLostHealthUpdate, configVars
  <2>2. CASE StartChecks
    <3>1. Len(loaded) \in DOMAIN loaded
      BY <1>inv DEF RuntimeConfigTypeOK
    <3>2. CellsOf(loaded, Len(loaded)) \subseteq Cells(loaded)
      BY <3>1 DEF Cells
    <3> QED BY <1>inv, <1>1, <2>2, <3>2
          DEF StartChecks, HealthTypeOK, NoLostHealthUpdate, RuntimeConfigTypeOK, configVars
  <2> QED BY <2>1, <2>2 DEF LoadInterval, SleepOver, SecondTick
<1>4. ServerTypeOK'
  <2>1. \A r \in Client : RequestTypeOK(r)'
    BY <1>inv, <1>1, RequestTypeFrame DEF ServerTypeOK, serverVars, configVars
  <2> QED BY <1>inv, <1>1, <2>1 DEF ServerTypeOK, serverVars
<1>5. ASSUME NEW r \in Client PROVE ClientInv(r)'
  BY <1>inv, <1>1, ClientInvFrame, Zenon DEF serverVars, configVars
<1> QED BY <1>2, <1>3, <1>4, <1>5 DEF IInv, TypeOK

(* The end of a check preserves the invariant: the only store to a cell,   *)
(* and it is added to the history of the requests that scan the cell.      *)
LEMMA FinishCheckIInv ==
  ASSUME IInv, NEW c \in DOMAIN previous, FinishCheck(c),
         seen' = SeenAfter(c, healthiness'[c]),
         UNCHANGED <<pc, pool, wanted, pos, working, chosen, response>>
  PROVE  IInv'
<1>inv. /\ RuntimeConfigTypeOK /\ HealthTypeOK /\ ServerTypeOK /\ NoLostHealthUpdate
       /\ \A s \in Client : ClientInv(s)
  BY DEF IInv, TypeOK
<1> DEFINE h == healthiness'[c]
<1>1. c \in Cells(loaded) /\ c \in DOMAIN healthiness
  BY <1>inv DEF HealthTypeOK, RuntimeConfigTypeOK
<1>2. PICK cg \in DOMAIN loaded : \E cp \in DOMAIN loaded[cg].backend_pools :
        \E ci \in Positions(cg, cp) : c = <<cg, cp, ci>>
  BY <1>1, CellsElement DEF Positions, Pool
<1>3. PICK cp \in DOMAIN loaded[cg].backend_pools : \E ci \in Positions(cg, cp) : c = <<cg, cp, ci>>
  BY <1>2
<1>4. PICK ci \in Positions(cg, cp) : c = <<cg, cp, ci>>
  BY <1>3
<1>5. CheckResult(c, servers[AddressOf(c)]) \in Healthiness
  BY DEF CheckResult, contact_server, Healthiness
<1>6. h \in Healthiness /\ healthiness' = [healthiness EXCEPT ![c] = h]
  BY <1>inv, <1>1, <1>5, Zenon DEF FinishCheck, RuntimeConfigTypeOK
<1>7. loaded' = loaded /\ \A g, p : Positions(g, p)' = Positions(g, p)
  BY DEF FinishCheck, Positions, Pool
<1>8. RuntimeConfigTypeOK'
  BY <1>inv, <1>6, <1>7 DEF RuntimeConfigTypeOK
<1>9. HealthTypeOK'
  BY <1>inv, <1>7 DEF FinishCheck, HealthTypeOK
<1>10. NoLostHealthUpdate'
  BY <1>inv, <1>6 DEF FinishCheck, NoLostHealthUpdate, HealthTypeOK, RuntimeConfigTypeOK
<1>11. ASSUME NEW r \in Client, pc[r] = "scan", pool[r] = <<cg, cp>>
       PROVE  /\ seen'[r] = [seen[r] EXCEPT ![ci] = Recorded(@, h)]
              /\ seen[r] \in [Positions(cg, cp) -> SUBSET (Healthiness \cup {"Recovered"})]
              /\ seen'[r] \in [Positions(cg, cp) -> SUBSET (Healthiness \cup {"Recovered"})]
  <2>1. seen'[r] = [seen[r] EXCEPT ![ci] = Recorded(@, h)]
    BY <1>4, <1>11 DEF SeenAfter
  <2>2. seen[r] \in [Positions(cg, cp) -> SUBSET (Healthiness \cup {"Recovered"})]
    BY <1>inv, <1>11 DEF ServerTypeOK, RequestTypeOK, ClientInv
  <2>3. Recorded(seen[r][ci], h) \in SUBSET (Healthiness \cup {"Recovered"})
    BY <1>6, <2>2, RecordedHas
  <2> QED BY <2>1, <2>2, <2>3
<1>12. ASSUME NEW r \in Client, ~(pc[r] = "scan" /\ pool[r] = <<cg, cp>>)
       PROVE  seen'[r] = seen[r]
  BY <1>4, <1>12 DEF SeenAfter
<1>13. ServerTypeOK'
  <2>1. DOMAIN seen' = Client
    BY DEF SeenAfter
  <2>2. ASSUME NEW r \in Client, pool[r] # NoPool
        PROVE  seen'[r] \in [Positions(pool[r][1], pool[r][2]) -> SUBSET (Healthiness \cup {"Recovered"})]
    BY <1>inv, <1>11, <1>12, <2>2, Zenon DEF ServerTypeOK, RequestTypeOK
  <2>3. ASSUME NEW r \in Client PROVE RequestTypeOK(r)'
    BY <1>inv, <1>7, <2>2, Zenon DEF ServerTypeOK, RequestTypeOK, Positions, Pool
  <2> QED BY <1>inv, <2>1, <2>3 DEF ServerTypeOK
<1>14. ASSUME NEW r \in Client PROVE ClientInv(r)'
  <2>1. ClientInv(r)
    BY <1>inv, Zenon
  <2>2. CASE pc[r] = "scan" /\ pool[r] = <<cg, cp>>
    <3>1. Scanned(r)
      BY <2>1, <2>2, Zenon DEF ClientInv
    <3>2. working[r] \subseteq Positions(cg, cp)
      <4>1. RequestTypeOK(r) /\ pool[r] # NoPool
        BY <1>inv, <2>1, <2>2, Zenon DEF ServerTypeOK, ClientInv
      <4>2. pool[r][1] = cg /\ pool[r][2] = cp
        BY <2>2
      <4> QED BY <4>1, <4>2, Zenon DEF RequestTypeOK
    <3>3. \A i \in Positions(cg, cp) \ {ci} : healthiness'[<<cg, cp, i>>] = healthiness[<<cg, cp, i>>]
      <4> TAKE i \in Positions(cg, cp) \ {ci}
      <4>1. <<cg, cp, i>> \in DOMAIN healthiness
        BY <1>inv, PositionsAreNumbers
      <4>2. <<cg, cp, i>> # c
        BY <1>4
      <4> QED BY <1>6, <4>1, <4>2
    <3>4. /\ seen'[r][ci] = Recorded(seen[r][ci], h)
          /\ \A i \in Positions(cg, cp) \ {ci} : seen'[r][i] = seen[r][i]
      BY <1>11, <2>2, Zenon
    <3>5. Scanned(r)'
      BY <1>4, <1>7, <2>2, <3>1, <3>2, <3>3, <3>4, ScannedAfterStore, Zenon
    <3>6. pc'[r] = "scan" /\ response'[r] = "none" /\ pool'[r] # NoPool
      BY <2>1, <2>2, Zenon DEF ClientInv
    <3> QED BY <3>5, <3>6, Zenon DEF ClientInv
  <2>3. CASE pc[r] = "scan" /\ pool[r] # <<cg, cp>>
    <3> DEFINE g == pool[r][1]
               p == pool[r][2]
    <3>1. Scanned(r) /\ pool[r] # NoPool
      BY <2>1, <2>3, Zenon DEF ClientInv
    <3>2. pool[r] = <<g, p>>
      <4>1. pool[r] \in Nat \X Nat
        BY <1>inv, Zenon DEF ServerTypeOK
      <4> QED BY <4>1
    <3>3. \A i : <<g, p, i>> # c
      BY <1>4, <2>3, <3>2, Zenon
    <3>4. g \in DOMAIN loaded /\ p \in DOMAIN loaded[g].backend_pools
      BY <1>inv, <3>1 DEF ServerTypeOK, RequestTypeOK
    <3>5. \A i \in Positions(g, p) : healthiness'[<<g, p, i>>] = healthiness[<<g, p, i>>]
      BY <1>inv, <1>6, <3>3, <3>4, PositionsAreNumbers, Zenon
    <3>6. Scanned(r)'
      BY <1>7, <1>12, <2>3, <3>1, <3>2, <3>5, ScannedFrame
    <3> QED BY <1>12, <2>1, <2>3, <3>6, Zenon DEF ClientInv
  <2>4. CASE pc[r] # "scan"
    BY <1>12, <2>1, <2>4, Zenon DEF ClientInv, Exact
  <2> QED BY <2>2, <2>3, <2>4
<1> QED BY <1>8, <1>9, <1>10, <1>13, <1>14 DEF IInv, TypeOK

(* A step of connection r leaves the configuration, the watcher and the    *)
(* other connections alone, so only r's own invariant is to be shown.      *)
LEMMA RequestFrame ==
  ASSUME IInv, UNCHANGED <<configVars, healthVars>>, NEW r \in Client,
         ServerTypeOK', ClientInv(r)',
         \A s \in Client \ {r} :
           /\ pc'[s] = pc[s] /\ pool'[s] = pool[s] /\ wanted'[s] = wanted[s] /\ pos'[s] = pos[s]
           /\ working'[s] = working[s] /\ chosen'[s] = chosen[s]
           /\ response'[s] = response[s] /\ seen'[s] = seen[s]
  PROVE  IInv'
<1>inv. /\ RuntimeConfigTypeOK /\ HealthTypeOK /\ ServerTypeOK /\ NoLostHealthUpdate
       /\ \A s \in Client : ClientInv(s)
  BY Zenon DEF IInv, TypeOK
<1>1. loaded' = loaded /\ healthiness' = healthiness
  BY DEF configVars
<1>2. RuntimeConfigTypeOK' /\ HealthTypeOK' /\ NoLostHealthUpdate'
  BY <1>inv, <1>1, Zenon DEF RuntimeConfigTypeOK, HealthTypeOK, NoLostHealthUpdate, healthVars
<1>3. \A s \in Client \ {r} : ClientInv(s)'
  BY <1>inv, <1>1, ClientInvFrame
<1> QED BY <1>2, <1>3 DEF IInv, TypeOK

-----------------------------------------------------------------------------
(* Finding a pool starts a scan whose history is the present.              *)
LEMMA CallIInv ==
  ASSUME IInv, NEW r \in Client, CallRequest(r), UNCHANGED healthVars
  PROVE  IInv'
<1>inv. /\ RuntimeConfigTypeOK /\ HealthTypeOK /\ ServerTypeOK /\ NoLostHealthUpdate
       /\ \A s \in Client : ClientInv(s)
  BY DEF IInv, TypeOK
<1>1. ClientInv(r) /\ pc[r] = "idle"
  BY <1>inv, Zenon DEF CallRequest, CallWithChallenge, CallWithoutPool, CallWithPool
<1>2. ASSUME NEW answer \in {"challenge", "not_found"}, Answered(r, answer),
             UNCHANGED <<configVars, pool, wanted, pos, working, chosen, seen>>
      PROVE  IInv'
  <2>1. ServerTypeOK'
    <3>1. \A s \in Client : RequestTypeOK(s)'
      BY <1>inv, <1>2, RequestTypeFrame, Zenon DEF ServerTypeOK, configVars
    <3> QED BY <1>inv, <1>2, <3>1 DEF Answered, ServerTypeOK
  <2>2. ClientInv(r)'
    BY <1>inv, <1>1, <1>2 DEF Answered, ServerTypeOK, ClientInv
  <2> QED BY <1>inv, <1>2, <2>1, <2>2, RequestFrame DEF Answered, ServerTypeOK
<1>3. ASSUME NEW scheme \in Scheme, NEW target \in Target, CallWithPool(r, scheme, target)
      PROVE  IInv'
  <2> DEFINE g == Len(loaded)
  <2>1. PICK p \in pool_by_req(Current.backend_pools, scheme, target) :
          /\ pool' = [pool EXCEPT ![r] = <<g, p>>]
          /\ seen' = [seen EXCEPT ![r] = [i \in Positions(g, p) |-> Recorded({}, healthiness[<<g, p, i>>])]]
    BY <1>3, Zenon DEF CallWithPool
  <2>2. g \in DOMAIN loaded /\ p \in DOMAIN loaded[g].backend_pools
    <3>1. p \in DOMAIN loaded[g].backend_pools
      BY <2>1, Zenon DEF pool_by_req, Matching, Current
    <3>2. loaded \in Seq(TomlConfigs) \ {<<>>}
      BY <1>inv, Zenon DEF RuntimeConfigTypeOK
    <3>3. g \in DOMAIN loaded
      BY <3>2, LastPosition, Zenon
    <3> QED BY <3>1, <3>3, Zenon
  <2>3. /\ g \in Nat /\ p \in Nat /\ g # 0
        /\ \A i \in Positions(g, p) : i \in Nat /\ i >= 1
        /\ \A i \in Positions(g, p) : healthiness[<<g, p, i>>] \in Healthiness
    <3>1. /\ Positions(g, p) = 1 .. Len(Pool(g, p).addresses) /\ Len(Pool(g, p).addresses) \in Nat
          /\ g \in Nat /\ p \in Nat /\ g # 0
          /\ \A i \in Positions(g, p) : <<g, p, i>> \in DOMAIN healthiness
      BY <1>inv, <2>2, PositionsAreNumbers, Zenon
    <3>2. healthiness \in [DOMAIN healthiness -> Healthiness]
      BY <1>inv DEF RuntimeConfigTypeOK
    <3>3. \A i \in Positions(g, p) : healthiness[<<g, p, i>>] \in Healthiness
      BY <3>1, <3>2, Zenon
    <3>4. \A i \in Positions(g, p) : i \in Nat /\ i >= 1
      BY <3>1
    <3> QED BY <3>1, <3>3, <3>4, Zenon
  <2>4. /\ pc' = [pc EXCEPT ![r] = "scan"]
        /\ UNCHANGED <<loaded, healthiness, wanted, pos, working, chosen, response>>
    BY <1>3, Zenon DEF CallWithPool, configVars
  <2>5. /\ pool'[r] = <<g, p>> /\ <<g, p>> \in Nat \X Nat
        /\ seen'[r] \in [Positions(g, p) -> SUBSET (Healthiness \cup {"Recovered"})]
        /\ \A i \in Positions(g, p) : seen'[r][i] = {healthiness[<<g, p, i>>]}
    <3>1. pool'[r] = <<g, p>> /\ seen'[r] = [i \in Positions(g, p) |-> Recorded({}, healthiness[<<g, p, i>>])]
      BY <1>inv, <2>1, Zenon DEF ServerTypeOK
    <3>2. \A i \in Positions(g, p) : seen'[r][i] = {healthiness[<<g, p, i>>]}
      BY <3>1, RecordedFirst, Zenon
    <3>3. \A i \in Positions(g, p) : {healthiness[<<g, p, i>>]} \in SUBSET (Healthiness \cup {"Recovered"})
      BY <2>3, Zenon
    <3>4. seen'[r] \in [Positions(g, p) -> SUBSET (Healthiness \cup {"Recovered"})]
      BY <3>1, <3>2, <3>3, Zenon
    <3>5. <<g, p>> \in Nat \X Nat
      BY <2>3
    <3> QED BY <3>1, <3>2, <3>4, <3>5, Zenon
  <2>6. ServerTypeOK'
    <3>1. working'[r] = {} /\ chosen'[r] = 0
      BY <1>1, <2>4, Zenon DEF ClientInv
    <3>2. RequestTypeOK(r)'
      <4>1. pool'[r][1] = g /\ pool'[r][2] = p
        BY <2>5
      <4> QED BY <2>2, <2>4, <2>5, <3>1, <4>1, Zenon DEF RequestTypeOK, Positions, Pool
    <3>3. ASSUME NEW s \in Client, s # r PROVE RequestTypeOK(s)'
      <4>1. RequestTypeOK(s) /\ pool'[s] = pool[s] /\ seen'[s] = seen[s]
        BY <1>inv, <2>1, <3>3 DEF ServerTypeOK
      <4> QED BY <2>4, <4>1, RequestTypeFrame, Zenon
    <3>4. /\ pool' \in [Client -> Nat \X Nat] /\ DOMAIN seen' = Client
          /\ pc' \in [Client -> {"idle", "scan", "forward", "done"}]
      BY <1>inv, <2>1, <2>4, <2>3 DEF ServerTypeOK
    <3> QED BY <1>inv, <2>4, <3>2, <3>3, <3>4, Zenon DEF ServerTypeOK
  <2>7. ClientInv(r)'
    <3>1. /\ pc'[r] = "scan" /\ wanted'[r] = "Healthy" /\ pos'[r] = 1 /\ working'[r] = {}
          /\ response'[r] = "none"
      BY <1>inv, <1>1, <2>4, Zenon DEF ClientInv, ServerTypeOK
    <3>2. Scanned(r)'
      <4>1. /\ pool'[r][1] = g /\ pool'[r][2] = p
            /\ \A i \in Positions(g, p) : seen'[r][i] = {healthiness[<<g, p, i>>]}
        BY <2>5
      <4>2. \A x, y : Positions(x, y)' = Positions(x, y)
        BY <2>4, PositionsFrame
      <4>3. \A i \in Positions(g, p) : ~(i < pos'[r])
        BY <2>3, <3>1, Numbers, Zenon
      <4>4. \A i \in Positions(g, p) :
              /\ healthiness'[<<g, p, i>>] \in seen'[r][i]
              /\ ~(healthiness'[<<g, p, i>>] = "Healthy" /\ "Slow" \in seen'[r][i])
        BY <2>4, <4>1
      <4> QED BY <3>1, <4>1, <4>2, <4>3, <4>4 DEF Scanned
    <3>3. pool'[r] # NoPool
      BY <2>3, <2>5 DEF NoPool
    <3> QED BY <3>1, <3>2, <3>3, Zenon DEF ClientInv
  <2> QED BY <1>inv, <2>1, <2>4, <2>6, <2>7, RequestFrame, Zenon DEF ServerTypeOK, configVars
<1> QED BY <1>2, <1>3 DEF CallRequest, CallWithChallenge, CallWithoutPool, IInv, TypeOK

(* Reading one more cell keeps the scan exact.                             *)
LEMMA LoadHealthinessIInv ==
  ASSUME IInv, NEW r \in Client, LoadHealthiness(r), UNCHANGED healthVars
  PROVE  IInv'
<1>inv. /\ RuntimeConfigTypeOK /\ HealthTypeOK /\ ServerTypeOK /\ NoLostHealthUpdate
       /\ \A s \in Client : ClientInv(s)
  BY Zenon DEF IInv, TypeOK
<1> DEFINE g == pool[r][1]
           p == pool[r][2]
<1>1. /\ ClientInv(r) /\ Scanned(r) /\ pool[r] # NoPool /\ RequestTypeOK(r)
      /\ pc[r] = "scan" /\ pos[r] \in Positions(g, p) /\ response[r] = "none"
  BY <1>inv, Zenon DEF LoadHealthiness, ClientInv, ServerTypeOK
<1>2. /\ UNCHANGED <<loaded, healthiness, pc, pool, wanted, chosen, response, seen>>
      /\ pos' = [pos EXCEPT ![r] = pos[r] + 1]
      /\ working' = [working EXCEPT ![r] = IF healthiness[<<g, p, pos[r]>>] = wanted[r]
                                           THEN working[r] \cup {pos[r]} ELSE working[r]]
  BY Zenon DEF LoadHealthiness, configVars, CellOf
<1>3. g \in DOMAIN loaded /\ p \in DOMAIN loaded[g].backend_pools
  BY <1>1 DEF RequestTypeOK
<1>4. \A i \in Positions(g, p) : i \in Nat
  BY <1>inv, <1>3, PositionsAreNumbers
<1>5. working[r] \subseteq Positions(g, p) /\ pos[r] \in Nat
  BY <1>inv, <1>1, Zenon DEF RequestTypeOK, ServerTypeOK
<1>6. pos'[r] = pos[r] + 1 /\ working'[r] = IF healthiness[<<g, p, pos[r]>>] = wanted[r]
                                           THEN working[r] \cup {pos[r]} ELSE working[r]
  BY <1>inv, <1>2, Zenon DEF ServerTypeOK
<1>7. ServerTypeOK'
  <2>1. RequestTypeOK(r)'
    <3>1. working'[r] \subseteq Positions(g, p)
      BY <1>1, <1>5, <1>6, Zenon
    <3> QED BY <1>1, <1>2, <3>1, Zenon DEF RequestTypeOK, Positions, Pool
  <2>2. ASSUME NEW s \in Client, s # r PROVE RequestTypeOK(s)'
    <3>1. RequestTypeOK(s) /\ working'[s] = working[s]
      BY <1>inv, <1>2, <2>2 DEF ServerTypeOK
    <3> QED BY <1>2, <3>1, RequestTypeFrame, Zenon
  <2>3. working' \in [Client -> SUBSET Nat] /\ pos' \in [Client -> Nat]
    BY <1>inv, <1>2, <1>5, <1>4 DEF ServerTypeOK
  <2> QED BY <1>inv, <1>2, <2>1, <2>2, <2>3 DEF ServerTypeOK
<1>8. Scanned(r)'
  <2>1. \A i \in working'[r] : wanted[r] \in seen[r][i]
    BY <1>1, <1>6, Zenon DEF Scanned
  <2>2. ASSUME NEW i \in Positions(g, p), i < pos'[r], i \notin working'[r]
        PROVE  Missed(wanted[r], seen[r][i])
    <3>1. i \notin working[r]
      BY <1>6, <2>2, Zenon
    <3>2. CASE i < pos[r]
      BY <1>1, <2>2, <3>1, <3>2, Zenon DEF Scanned
    <3>3. CASE i = pos[r]
      <4>1. healthiness[<<g, p, i>>] # wanted[r]
        BY <1>6, <2>2, <3>3, Zenon
      <4>2. /\ healthiness[<<g, p, i>>] \in seen[r][i]
            /\ healthiness[<<g, p, i>>] = "Healthy" /\ "Slow" \in seen[r][i] => "Recovered" \in seen[r][i]
            /\ wanted[r] = "Slow" => seen[r][i] # {"Healthy"}
        BY <1>1, <2>2, Zenon DEF Scanned
      <4>3. /\ wanted[r] \in {"Healthy", "Slow"}
            /\ seen[r][i] \in SUBSET (Healthiness \cup {"Recovered"})
        BY <1>inv, <1>1, Zenon DEF ServerTypeOK, RequestTypeOK
      <4> QED BY <4>1, <4>2, <4>3, ReadingMisses, Zenon
    <3>4. i < pos[r] \/ i = pos[r]
      BY <1>4, <1>5, <1>6, <2>2, Numbers, Zenon
    <3> QED BY <3>2, <3>3, <3>4, Zenon
  <2>3. pos'[r] >= 1
    BY <1>5, <1>6, Numbers, Zenon
  <2> QED BY <1>1, <1>2, <2>1, <2>2, <2>3, Zenon DEF Scanned, Positions, Pool
<1>9. ClientInv(r)'
  BY <1>1, <1>2, <1>8, Zenon DEF ClientInv
<1> QED BY <1>inv, <1>2, <1>7, <1>9, RequestFrame, Zenon DEF ServerTypeOK, configVars, IInv, TypeOK

(* The end of a pass: nothing is left to read, so every address has been   *)
(* collected or is excused.                                                *)
LEMMA PassWasExact ==
  ASSUME IInv, NEW r \in Client, PassIsOver(r)
  PROVE  /\ Scanned(r) /\ pool[r] # NoPool /\ RequestTypeOK(r) /\ response[r] = "none"
         /\ DOMAIN seen[r] = Positions(pool[r][1], pool[r][2])
         /\ \A i \in Positions(pool[r][1], pool[r][2]) : i \in Nat /\ i >= 1
         /\ Exact(r)
<1>inv. /\ RuntimeConfigTypeOK /\ HealthTypeOK /\ ServerTypeOK /\ NoLostHealthUpdate
       /\ \A s \in Client : ClientInv(s)
  BY Zenon DEF IInv, TypeOK
<1> DEFINE g == pool[r][1]
           p == pool[r][2]
<1>1. /\ Scanned(r) /\ pool[r] # NoPool /\ RequestTypeOK(r)
      /\ pos[r] \notin Positions(g, p) /\ response[r] = "none"
  BY <1>inv, Zenon DEF PassIsOver, ClientInv, ServerTypeOK
<1>2. g \in DOMAIN loaded /\ p \in DOMAIN loaded[g].backend_pools
  BY <1>1, Zenon DEF RequestTypeOK
<1>3. Positions(g, p) = 1 .. Len(Pool(g, p).addresses) /\ Len(Pool(g, p).addresses) \in Nat
  BY <1>inv, <1>2, PositionsAreNumbers, Zenon
<1>4. pos[r] \in Nat /\ pos[r] >= 1
  BY <1>inv, <1>1 DEF Scanned, ServerTypeOK
<1>5. \A i \in Positions(g, p) : i < pos[r]
  BY <1>1, <1>3, <1>4
<1>6. DOMAIN seen[r] = Positions(g, p)
  BY <1>1, Zenon DEF RequestTypeOK
<1>7. Exact(r)
  BY <1>1, <1>5, <1>6, Zenon DEF Scanned, Exact
<1>8. \A i \in Positions(g, p) : i \in Nat /\ i >= 1
  BY <1>3
<1> QED BY <1>1, <1>6, <1>7, <1>8, Zenon

(* What the future does at the end of a pass preserves the invariant.      *)
LEMMA PassEndsIInv ==
  ASSUME IInv, NEW r \in Client, UNCHANGED healthVars,
         ScanForSlow(r) \/ AbortEarly(r) \/ \E i \in working[r] : select_backend(r, i)
  PROVE  IInv'
<1>inv. /\ RuntimeConfigTypeOK /\ HealthTypeOK /\ ServerTypeOK /\ NoLostHealthUpdate
       /\ \A s \in Client : ClientInv(s)
  BY Zenon DEF IInv, TypeOK
<1> DEFINE g == pool[r][1]
           p == pool[r][2]
<1>1. PassIsOver(r) /\ UNCHANGED <<loaded, healthiness, pool, working, seen>>
  BY Zenon DEF ScanForSlow, AbortEarly, select_backend, configVars
<1>2. /\ Scanned(r) /\ pool[r] # NoPool /\ RequestTypeOK(r) /\ response[r] = "none"
      /\ DOMAIN seen[r] = Positions(g, p)
      /\ \A i \in Positions(g, p) : i \in Nat /\ i >= 1
      /\ Exact(r)
  BY <1>1, PassWasExact, Zenon
<1>3. pc[r] = "scan"
  BY <1>1, Zenon DEF PassIsOver
<1>4. CASE ScanForSlow(r)
  <2>1. /\ UNCHANGED <<pc, chosen, response>> /\ wanted[r] = "Healthy" /\ working[r] = {}
        /\ wanted' = [wanted EXCEPT ![r] = "Slow"] /\ pos' = [pos EXCEPT ![r] = 1]
    BY <1>4, Zenon DEF ScanForSlow
  <2>2. ServerTypeOK'
    <3>1. \A s \in Client : RequestTypeOK(s)'
      BY <1>inv, <1>1, <2>1, RequestTypeFrame DEF ServerTypeOK
    <3> QED BY <1>inv, <1>1, <2>1, <3>1 DEF ServerTypeOK
  <2>3. wanted'[r] = "Slow" /\ pos'[r] = 1
    BY <1>inv, <2>1, Zenon DEF ServerTypeOK
  <2>4. \A i \in Positions(g, p) : seen[r][i] # {"Healthy"}
    BY <1>2, <2>1, Zenon DEF Exact, Missed
  <2>5. Scanned(r)'
    <3>1. Positions(g, p)' = Positions(g, p) /\ working'[r] = {}
      BY <1>1, <2>1, Zenon DEF Positions, Pool
    <3>2. \A i \in Positions(g, p) : ~(i < pos'[r])
      BY <1>2, <2>3, Numbers, Zenon
    <3>3. \A i \in Positions(g, p) :
            /\ healthiness[<<g, p, i>>] \in seen[r][i]
            /\ healthiness[<<g, p, i>>] = "Healthy" /\ "Slow" \in seen[r][i] => "Recovered" \in seen[r][i]
      BY <1>2, Zenon DEF Scanned
    <3>4. 1 >= 1
      OBVIOUS
    <3> QED BY <1>1, <2>3, <2>4, <3>1, <3>2, <3>3, <3>4, Zenon DEF Scanned
  <2>6. ClientInv(r)'
    BY <1>1, <1>2, <1>3, <2>1, <2>5, Zenon DEF ClientInv
  <2> QED BY <1>inv, <1>1, <2>1, <2>2, <2>6, RequestFrame, Zenon DEF ServerTypeOK, configVars
<1>5. CASE AbortEarly(r)
  <2>1. /\ UNCHANGED <<wanted, pos, chosen>> /\ wanted[r] = "Slow" /\ working[r] = {}
        /\ pc' = [pc EXCEPT ![r] = "done"]
        /\ response' = [response EXCEPT ![r] = "no_working_address"]
    BY <1>5, Zenon DEF AbortEarly, Answered
  <2>2. ServerTypeOK'
    <3>1. \A s \in Client : RequestTypeOK(s)'
      BY <1>inv, <1>1, <2>1, RequestTypeFrame, Zenon DEF ServerTypeOK
    <3> QED BY <1>inv, <1>1, <2>1, <3>1 DEF ServerTypeOK
  <2>3. \A i \in DOMAIN seen[r] : seen[r][i] \cap {"Unresponsive", "Recovered"} # {}
    <3>1. "Slow" # "Healthy"
      OBVIOUS
    <3> QED BY <1>2, <2>1, <3>1, Zenon DEF Exact, Missed
  <2>4. pc'[r] = "done"
    BY <1>inv, <2>1, Zenon DEF ServerTypeOK
  <2>5. ClientInv(r)'
    BY <1>1, <2>3, <2>4, Zenon DEF ClientInv
  <2> QED BY <1>inv, <1>1, <2>1, <2>2, <2>5, RequestFrame DEF ServerTypeOK, configVars
<1>6. ASSUME NEW i \in working[r], select_backend(r, i) PROVE IInv'
  <2>1. /\ UNCHANGED <<wanted, pos, response>>
        /\ pc' = [pc EXCEPT ![r] = "forward"] /\ chosen' = [chosen EXCEPT ![r] = i]
    BY <1>6, Zenon DEF select_backend
  <2>2. i \in Positions(g, p) /\ i \in Nat
    BY <1>2, Zenon DEF RequestTypeOK
  <2>3. pc'[r] = "forward" /\ chosen'[r] = i
    BY <1>inv, <2>1 DEF ServerTypeOK
  <2>4. ServerTypeOK'
    <3>1. RequestTypeOK(r)'
      BY <1>1, <1>2, <2>2, <2>3, Zenon DEF RequestTypeOK, Positions, Pool
    <3>2. ASSUME NEW s \in Client, s # r PROVE RequestTypeOK(s)'
      <4>1. RequestTypeOK(s) /\ chosen'[s] = chosen[s]
        BY <1>inv, <2>1, <3>2 DEF ServerTypeOK
      <4> QED BY <1>1, <4>1, RequestTypeFrame
    <3>3. /\ chosen' \in [Client -> Nat]
          /\ pc' \in [Client -> {"idle", "scan", "forward", "done"}]
      BY <1>inv, <2>1, <2>2, Zenon DEF ServerTypeOK
    <3> QED BY <1>inv, <1>1, <2>1, <3>1, <3>2, <3>3 DEF ServerTypeOK
  <2>5. ClientInv(r)'
    <3>1. Exact(r)'
      BY <1>1, <1>2, <2>1, Zenon DEF Exact
    <3>2. response'[r] = "none" /\ pool'[r] # NoPool /\ chosen'[r] \in working'[r]
      BY <1>1, <1>2, <2>1, <2>3, Zenon
    <3> QED BY <2>3, <3>1, <3>2, Zenon DEF ClientInv
  <2> QED BY <1>inv, <1>1, <2>1, <2>4, <2>5, RequestFrame, Zenon DEF ServerTypeOK, configVars
<1> QED BY <1>4, <1>5, <1>6 DEF IInv, TypeOK

(* The end of a request.                                                   *)
LEMMA RequestEndsIInv ==
  ASSUME IInv, NEW r \in Client, UNCHANGED healthVars,
         MiddlewareAnswers(r) \/ BackendAnswers(r) \/ ResponseSent(r)
  PROVE  IInv'
<1>inv. /\ RuntimeConfigTypeOK /\ HealthTypeOK /\ ServerTypeOK /\ NoLostHealthUpdate
       /\ \A s \in Client : ClientInv(s)
  BY Zenon DEF IInv, TypeOK
<1>1. ASSUME NEW answer \in {"middleware", "backend", "backend_error"}, Forwarded(r, answer)
      PROVE  IInv'
  <2>1. /\ UNCHANGED <<loaded, healthiness, pool, wanted, pos, working, chosen, seen>>
        /\ pc' = [pc EXCEPT ![r] = "done"] /\ response' = [response EXCEPT ![r] = answer]
    BY <1>1 DEF Forwarded, Answered, configVars
  <2>2. ServerTypeOK'
    <3>1. \A s \in Client : RequestTypeOK(s)'
      BY <1>inv, <2>1, RequestTypeFrame DEF ServerTypeOK
    <3> QED BY <1>inv, <2>1, <3>1 DEF ServerTypeOK
  <2>3. ClientInv(r)'
    BY <1>inv, <2>1, Zenon DEF ClientInv, ServerTypeOK
  <2> QED BY <1>inv, <2>1, <2>2, <2>3, RequestFrame DEF ServerTypeOK, configVars
<1>2. CASE ResponseSent(r)
  <2>1. UNCHANGED <<loaded, healthiness>>
    BY <1>2, Zenon DEF ResponseSent, configVars
  <2>2. /\ pc'[r] = "idle" /\ pool'[r] = NoPool /\ wanted'[r] = "Healthy" /\ pos'[r] = 1
        /\ working'[r] = {} /\ chosen'[r] = 0 /\ response'[r] = "none"
    BY <1>inv, <1>2, Zenon DEF ResponseSent, ServerTypeOK
  <2>3. ServerTypeOK'
    <3>1. RequestTypeOK(r)'
      BY <2>2 DEF RequestTypeOK, NoPool
    <3>2. ASSUME NEW s \in Client, s # r PROVE RequestTypeOK(s)'
      <4>1. /\ RequestTypeOK(s) /\ pool'[s] = pool[s] /\ working'[s] = working[s]
            /\ chosen'[s] = chosen[s] /\ seen'[s] = seen[s]
        BY <1>inv, <1>2, <3>2 DEF ServerTypeOK, ResponseSent
      <4> QED BY <2>1, <4>1, RequestTypeFrame
    <3> QED BY <1>inv, <1>2, <3>1, <3>2, Zenon DEF ServerTypeOK, ResponseSent, NoPool
  <2>4. ClientInv(r)'
    BY <2>2 DEF ClientInv
  <2> QED BY <1>inv, <1>2, <2>1, <2>3, <2>4, RequestFrame, Zenon DEF ResponseSent, ServerTypeOK, configVars
<1> QED BY <1>1, <1>2 DEF MiddlewareAnswers, BackendAnswers, IInv, TypeOK

(* Every step preserves the invariant.                                     *)
LEMMA NextIInv == ASSUME IInv, [Next]_vars PROVE IInv'
<1>1. CASE ReloadConfig
  BY <1>1, ReloadIInv
<1>2. CASE WatchHealth
  BY <1>2, WatcherMovesIInv, FinishCheckIInv, Zenon DEF WatchHealth
<1>3. CASE ServeRequest
  BY <1>3, CallIInv, LoadHealthinessIInv, PassEndsIInv, RequestEndsIInv DEF ServeRequest, RequestStep
<1>4. CASE ChangeServer
  <2>1. UNCHANGED <<configVars, watcher, previous, serverVars>> /\ servers' \in [Address -> Behaviour]
    BY <1>4, Zenon DEF ChangeServer, ServerChanges, IInv, TypeOK, HealthTypeOK
  <2>2. \A r \in Client : ClientInv(r)'
    BY <2>1, ClientInvFrame DEF IInv, serverVars, configVars
  <2>3. RuntimeConfigTypeOK' /\ HealthTypeOK' /\ NoLostHealthUpdate'
    BY <2>1 DEF IInv, TypeOK, RuntimeConfigTypeOK, HealthTypeOK, NoLostHealthUpdate, configVars
  <2>4. ServerTypeOK'
    <3>1. \A r \in Client : RequestTypeOK(r)'
      BY <2>1, RequestTypeFrame DEF IInv, TypeOK, ServerTypeOK, serverVars, configVars
    <3> QED BY <2>1, <3>1 DEF IInv, TypeOK, ServerTypeOK, serverVars
  <2> QED BY <2>2, <2>3, <2>4 DEF IInv, TypeOK
<1>5. CASE UNCHANGED vars
  <2>1. \A r \in Client : ClientInv(r)'
    BY <1>5, ClientInvFrame, Zenon DEF IInv, vars, serverVars, configVars
  <2>2. RuntimeConfigTypeOK' /\ HealthTypeOK' /\ NoLostHealthUpdate'
    BY <1>5, Zenon DEF IInv, TypeOK, RuntimeConfigTypeOK, HealthTypeOK, NoLostHealthUpdate,
             vars, configVars, healthVars
  <2>3. ServerTypeOK'
    <3>1. \A r \in Client : RequestTypeOK(r)'
      BY <1>5, RequestTypeFrame DEF IInv, TypeOK, ServerTypeOK, vars, serverVars, configVars
    <3> QED BY <1>5, <3>1 DEF IInv, TypeOK, ServerTypeOK, vars, serverVars
  <2> QED BY <2>1, <2>2, <2>3 DEF IInv, TypeOK
<1> QED BY <1>1, <1>2, <1>3, <1>4, <1>5 DEF Next
-----------------------------------------------------------------------------
(* The inductive invariant holds in every reachable state.                 *)
THEOREM Invariance == Spec => []IInv
BY InitIInv, NextIInv, PTL DEF Spec

(* Requests, checks and pools keep referring to generations, cells and     *)
(* positions that exist, however often the configuration is reloaded.      *)
THEOREM TypeCorrect == Spec => []TypeOK
<1>1. IInv => TypeOK
  BY DEF IInv
<1> QED BY <1>1, Invariance, PTL

(* check_server_health_once compares its result with the value its cell    *)
(* still has when it comes to store it.                                    *)
THEOREM HealthUpdatesAreNotLost == Spec => []NoLostHealthUpdate
<1>1. IInv => NoLostHealthUpdate
  BY Zenon DEF IInv
<1> QED BY <1>1, Invariance, PTL

(* The early 502 of call() is given only if every address was Unresponsive *)
(* at some time, or became Healthy between the two passes.                 *)
THEOREM BadGatewayIsJustified == Spec => []NoFalseBadGateway
<1>1. IInv => NoFalseBadGateway
  BY Zenon DEF IInv, ClientInv, NoFalseBadGateway
<1> QED BY <1>1, Invariance, PTL

(* The address a strategy is given had the healthiness it was collected    *)
(* for, Slow addresses are the last resort, and the two unlocked passes    *)
(* are exact on every cell that nobody wrote meanwhile.                    *)
THEOREM SelectionIsJustified == Spec => []SelectionJustified
<1>1. ASSUME IInv, NEW r \in Client, pc[r] = "forward"
      PROVE  /\ wanted[r] \in seen[r][chosen[r]]
             /\ wanted[r] = "Slow" => \A i \in DOMAIN seen[r] : seen[r][i] # {"Healthy"}
  <2>1. Exact(r) /\ chosen[r] \in working[r] /\ RequestTypeOK(r) /\ pool[r] # NoPool
    BY <1>1, Zenon DEF IInv, TypeOK, ServerTypeOK, ClientInv
  <2>2. chosen[r] \in DOMAIN seen[r]
    BY <2>1, Zenon DEF RequestTypeOK
  <2> QED BY <2>1, <2>2, Zenon DEF Exact
<1>2. ASSUME IInv, NEW r \in Client, pc[r] = "forward", NEW i \in DOMAIN seen[r],
             NEW h \in Healthiness, seen[r][i] = {h}
      PROVE  i \in working[r] <=> h = wanted[r]
  <2>1. wanted[r] \in {"Healthy", "Slow"}
    BY <1>2, Zenon DEF IInv, TypeOK, ServerTypeOK
  <2>2. IF i \in working[r] THEN wanted[r] \in seen[r][i] ELSE Missed(wanted[r], seen[r][i])
    BY <1>2, Zenon DEF IInv, ClientInv, Exact
  <2> QED BY <1>2, <2>1, <2>2 DEF Missed
<1>3. IInv => SelectionJustified
  BY <1>1, <1>2, Zenon DEF SelectionJustified
<1> QED BY <1>3, Invariance, PTL
-----------------------------------------------------------------------------
(* A step that the requests at the filter do not show.                     *)
LEMMA FilterStutters ==
  ASSUME UNCHANGED <<healthiness, pc, pool, chosen, response, seen>>,
         \A r \in Client : pc[r] = "forward" => working'[r] = working[r]
  PROVE  UNCHANGED Filter!vars
<1>1. Offered' = Offered
  BY Zenon DEF Offered
<1>2. Refused' = Refused
  BY Zenon DEF Refused
<1> QED BY <1>1, <1>2, Zenon DEF Filter!vars

(* What one connection's step shows of the addresses it was offered.       *)
LEMMA OfferedAfter ==
  ASSUME NEW r \in Client, NEW found,
         \A s \in Client \ {r} : pc'[s] = pc[s] /\ working'[s] = working[s],
         found = IF pc'[r] = "forward" THEN working'[r] ELSE {}
  PROVE  Offered' = [Offered EXCEPT ![r] = found]
BY Zenon DEF Offered

(* A request that is answered, other than by the filter.                   *)
LEMMA AnswerShows ==
  ASSUME NEW r \in Client, pc[r] \in {"idle", "forward"}, DOMAIN pc = Client,
         pc' = [pc EXCEPT ![r] = "done"],
         response[r] = "none", response'[r] # "no_working_address",
         \A s \in Client \ {r} : response'[s] = response[s],
         UNCHANGED <<healthiness, pool, chosen, seen, working>>
  PROVE  Filter!Answer(r)
<1>1. pc'[r] # "forward" /\ \A s \in Client \ {r} : pc'[s] = pc[s]
  OBVIOUS
<1>2. Offered' = [Offered EXCEPT ![r] = {}]
  BY <1>1, OfferedAfter, Zenon
<1>3. Refused' = Refused
  BY DEF Refused
<1> QED BY <1>2, <1>3, Zenon DEF Filter!Answer

(* The cells are Healthy at first.                                         *)
LEMMA InitFilter == ASSUME Init PROVE Filter!Init
<1> USE DEF Init, RuntimeConfigInit, ServerInit
<1>1. healthiness = [c \in DOMAIN healthiness |-> "Healthy"]
  BY DEF InitialHealthiness
<1>2. Offered = [r \in Client |-> {}]
  BY DEF Offered
<1>3. Refused = {}
  BY DEF Refused
<1> QED BY <1>1, <1>2, <1>3, Zenon DEF Filter!Init, NoPool

(* A reload adds Healthy cells of a generation of their own.               *)
LEMMA ReloadFilter == ASSUME IInv, ReloadConfig PROVE Filter!Reload
<1>inv. RuntimeConfigTypeOK
  BY Zenon DEF IInv, TypeOK
<1>1. PICK toml \in TomlConfigs : StoreConfig(toml) /\ UNCHANGED <<healthVars, serverVars>>
  BY Zenon DEF ReloadConfig
<1>2. \A c \in DOMAIN healthiness : c \in DOMAIN healthiness' /\ healthiness'[c] = healthiness[c]
  BY <1>inv, <1>1, StoreKeepsCells, Zenon
<1>3. ASSUME NEW c \in DOMAIN healthiness' \ DOMAIN healthiness
      PROVE  healthiness'[c] = "Healthy" /\ \A d \in DOMAIN healthiness : d[1] < c[1]
  <2>1. /\ c \in Cells(loaded') /\ c \notin Cells(loaded) /\ healthiness'[c] = "Healthy"
        /\ DOMAIN healthiness = Cells(loaded)
    BY <1>inv, <1>1, <1>3, Zenon DEF RuntimeConfigTypeOK, StoreConfig, InitialHealthiness
  <2>2. c[1] \in DOMAIN loaded' /\ c[1] \notin DOMAIN loaded
    <3>1. PICK g \in DOMAIN loaded' : \E p \in DOMAIN loaded'[g].backend_pools :
            \E i \in DOMAIN loaded'[g].backend_pools[p].addresses : c = <<g, p, i>>
      BY <2>1, CellsElement
    <3>2. g \notin DOMAIN loaded
      BY <1>inv, <1>1, <2>1, <3>1, StoreKeepsGenerations, CellsElement
    <3>3. c[1] = g
      BY <3>1
    <3> QED BY <3>2, <3>3, Zenon
  <2>3. ASSUME NEW d \in DOMAIN healthiness PROVE d[1] \in DOMAIN loaded
    BY <2>1, CellsElement
  <2>4. \A m \in DOMAIN loaded : m < c[1]
    BY <1>inv, <1>1, <2>2 DEF RuntimeConfigTypeOK, StoreConfig
  <2> QED BY <2>1, <2>3, <2>4, Zenon
<1>4. UNCHANGED <<pc, pool, seen, chosen, Offered, Refused>>
  BY <1>1, Zenon DEF serverVars, Offered, Refused
<1> QED BY <1>2, <1>3, <1>4, Zenon DEF Filter!Reload

(* The end of a check is the change of one cell.                           *)
LEMMA FinishCheckFilter ==
  ASSUME IInv, NEW c \in DOMAIN previous, FinishCheck(c),
         seen' = SeenAfter(c, healthiness'[c]),
         UNCHANGED <<pc, pool, wanted, pos, working, chosen, response>>
  PROVE  \E d \in DOMAIN healthiness, h \in Healthiness : Filter!Change(d, h)
<1>inv. RuntimeConfigTypeOK /\ HealthTypeOK
  BY Zenon DEF IInv, TypeOK
<1> DEFINE h == healthiness'[c]
<1>1. c \in DOMAIN healthiness
  BY <1>inv DEF HealthTypeOK, RuntimeConfigTypeOK
<1>2. CheckResult(c, servers[AddressOf(c)]) \in Healthiness
  BY DEF CheckResult, contact_server, Healthiness
<1>3. h \in Healthiness /\ healthiness' = [healthiness EXCEPT ![c] = h]
  BY <1>inv, <1>1, <1>2, Zenon DEF FinishCheck, RuntimeConfigTypeOK
<1>4. UNCHANGED <<Offered, Refused>>
  BY Zenon DEF Offered, Refused
<1>5. Filter!Change(c, h)
  BY <1>3, <1>4, Zenon DEF Filter!Change, SeenAfter, Recorded, Filter!Recorded
<1> QED BY <1>1, <1>3, <1>5, Zenon

(* call() answers by itself, or finds a pool of the newest generation.     *)
LEMMA CallFilter == ASSUME IInv, NEW r \in Client, CallRequest(r) PROVE Filter!Answer(r) \/ Filter!Arrive(r)
<1>inv. RuntimeConfigTypeOK /\ ServerTypeOK /\ ClientInv(r)
  BY Zenon DEF IInv, TypeOK
<1>1. /\ pc[r] = "idle" /\ response[r] = "none"
      /\ pc \in [Client -> {"idle", "scan", "forward", "done"}]
      /\ DOMAIN response = Client /\ DOMAIN pool = Client /\ DOMAIN seen = Client
  BY <1>inv, Zenon DEF CallRequest, CallWithChallenge, CallWithoutPool, CallWithPool, ClientInv, ServerTypeOK
<1>2. ASSUME NEW answer \in {"challenge", "not_found"}, Answered(r, answer),
             UNCHANGED <<configVars, pool, wanted, pos, working, chosen, seen>>
      PROVE  Filter!Answer(r)
  <2>1. /\ pc' = [pc EXCEPT ![r] = "done"] /\ response' = [response EXCEPT ![r] = answer]
        /\ UNCHANGED <<healthiness, pool, chosen, seen, working>>
    BY <1>2, Zenon DEF Answered, configVars
  <2>2. /\ response'[r] # "no_working_address" /\ \A s \in Client \ {r} : response'[s] = response[s]
        /\ DOMAIN pc = Client /\ pc[r] \in {"idle", "forward"}
    BY <1>1, <1>2, <2>1
  <2> QED BY <1>1, <2>1, <2>2, AnswerShows, Zenon
<1>3. ASSUME NEW scheme \in Scheme, NEW target \in Target, CallWithPool(r, scheme, target)
      PROVE  Filter!Arrive(r)
  <2> DEFINE g == Len(loaded)
  <2>1. PICK p \in pool_by_req(Current.backend_pools, scheme, target) :
          /\ pool' = [pool EXCEPT ![r] = <<g, p>>]
          /\ seen' = [seen EXCEPT ![r] = [i \in Positions(g, p) |-> Recorded({}, healthiness[<<g, p, i>>])]]
    BY <1>3, Zenon DEF CallWithPool
  <2>2. /\ pc' = [pc EXCEPT ![r] = "scan"]
        /\ UNCHANGED <<healthiness, working, chosen, response>>
    BY <1>3, Zenon DEF CallWithPool, configVars
  <2>3. p \in DOMAIN loaded[g].backend_pools
    BY <2>1, Zenon DEF pool_by_req, Matching, Current
  <2>4. DOMAIN healthiness = Cells(loaded) /\ loaded \in Seq(TomlConfigs) \ {<<>>}
    BY <1>inv, Zenon DEF RuntimeConfigTypeOK
  <2>5. \A c \in DOMAIN healthiness : c[1] \in DOMAIN loaded
    BY <2>4, CellsElement
  <2>6. \A c \in DOMAIN healthiness : c[1] <= g
    BY <2>4, <2>5
  <2>7. Filter!PositionsOf(<<g, p>>) = Positions(g, p)
    <3>1. g \in DOMAIN loaded
      BY <2>4, LastPosition, Zenon
    <3>2. \A i : i \in Positions(g, p) <=> <<g, p, i>> \in DOMAIN healthiness
      BY <2>3, <2>4, <3>1, CellsElement DEF Positions, Pool
    <3>3. \A c \in DOMAIN healthiness : c[1] = g /\ c[2] = p => c = <<g, p, c[3]>>
      BY <2>4, CellsElement
    <3> QED BY <3>2, <3>3, Zenon DEF Filter!PositionsOf
  <2>8. pool'[r] = <<g, p>> /\ <<g, p>>[1] = g /\ <<g, p>>[2] = p /\ pool' = [pool EXCEPT ![r] = pool'[r]]
    BY <1>1, <2>1
  <2>9. UNCHANGED <<Offered, Refused>>
    <3>1. pc'[r] = "scan" /\ \A s \in Client \ {r} : pc'[s] = pc[s]
      BY <1>1, <2>2
    <3> QED BY <1>1, <2>2, <3>1 DEF Offered, Refused
  <2>10. seen' = [seen EXCEPT ![r] = [i \in Filter!PositionsOf(<<g, p>>) |->
                    Filter!Recorded({}, healthiness[<<g, p, i>>])]]
    BY <2>1, <2>7, Zenon DEF Recorded, Filter!Recorded
  <2>11. /\ \A c \in DOMAIN healthiness : c[1] <= pool'[r][1]
         /\ seen' = [seen EXCEPT ![r] = [i \in Filter!PositionsOf(pool'[r]) |->
                       Filter!Recorded({}, healthiness[<<pool'[r][1], pool'[r][2], i>>])]]
    BY <2>6, <2>8, <2>10, Zenon
  <2>12. pc[r] = "idle" /\ UNCHANGED <<healthiness, Offered, chosen, Refused>>
    BY <1>1, <2>2, <2>9, Zenon
  <2> QED BY <2>2, <2>8, <2>11, <2>12, Zenon DEF Filter!Arrive
<1> QED BY <1>2, <1>3, Zenon DEF CallRequest, CallWithChallenge, CallWithoutPool

(* The passes do not show; at their end the histories allow what is done.  *)
LEMMA RequestStepFilter ==
  ASSUME IInv, NEW r \in Client, RequestStep(r)
  PROVE  \/ UNCHANGED Filter!vars
         \/ Filter!Refuse(r)
         \/ \E found \in SUBSET DOMAIN seen[r] : \E i \in found : Filter!Offer(r, found, i)
<1>inv. ServerTypeOK /\ ClientInv(r)
  BY Zenon DEF IInv, TypeOK
<1>1. pc[r] = "scan" /\ response[r] = "none"
  BY <1>inv, Zenon DEF RequestStep, LoadHealthiness, ScanForSlow, AbortEarly, select_backend, PassIsOver, ClientInv
<1>2. /\ pc \in [Client -> {"idle", "scan", "forward", "done"}] /\ wanted[r] \in {"Healthy", "Slow"}
      /\ DOMAIN response = Client /\ DOMAIN working = Client
  BY <1>inv, Zenon DEF ServerTypeOK
<1>3. CASE LoadHealthiness(r)
  <2>1. \A s \in Client : pc[s] = "forward" => working'[s] = working[s]
    BY <1>1, <1>2, <1>3 DEF LoadHealthiness
  <2> QED BY <1>3, <2>1, FilterStutters, Zenon DEF LoadHealthiness, configVars
<1>4. CASE ScanForSlow(r)
  BY <1>4, FilterStutters, Zenon DEF ScanForSlow, configVars
<1>5. ASSUME PassIsOver(r) PROVE Exact(r) /\ working[r] \subseteq DOMAIN seen[r]
  <2>1. /\ Exact(r) /\ DOMAIN seen[r] = Positions(pool[r][1], pool[r][2])
        /\ RequestTypeOK(r) /\ pool[r] # NoPool
    BY <1>5, PassWasExact, Zenon
  <2> QED BY <2>1, Zenon DEF RequestTypeOK
<1>6. CASE AbortEarly(r)
  <2>1. /\ pc' = [pc EXCEPT ![r] = "done"] /\ response' = [response EXCEPT ![r] = "no_working_address"]
        /\ UNCHANGED <<healthiness, pool, chosen, seen, working>>
        /\ wanted[r] = "Slow" /\ working[r] = {} /\ PassIsOver(r)
    BY <1>6, Zenon DEF AbortEarly, Answered, configVars
  <2>2. Filter!SlowOnes(seen[r], {})
    <3>1. "Slow" # "Healthy"
      OBVIOUS
    <3> QED BY <1>5, <2>1, <3>1, Zenon DEF Exact, Missed, Filter!SlowOnes
  <2>3. Offered' = Offered
    BY <1>1, <1>2, <2>1 DEF Offered
  <2>4. Refused' = Refused \cup {r}
    BY <1>2, <2>1 DEF Refused
  <2> QED BY <1>1, <2>1, <2>2, <2>3, <2>4, Zenon DEF Filter!Refuse
<1>7. ASSUME NEW i \in working[r], select_backend(r, i) PROVE Filter!Offer(r, working[r], i)
  <2>1. /\ pc' = [pc EXCEPT ![r] = "forward"] /\ chosen' = [chosen EXCEPT ![r] = i]
        /\ UNCHANGED <<healthiness, pool, seen, working, response>> /\ PassIsOver(r)
    BY <1>7, Zenon DEF select_backend, configVars
  <2>2. ASSUME wanted[r] = "Healthy" PROVE Filter!HealthyOnes(seen[r], working[r])
    BY <1>5, <2>1, <2>2, Zenon DEF Exact, Missed, Filter!HealthyOnes
  <2>3. ASSUME wanted[r] = "Slow" PROVE Filter!SlowOnes(seen[r], working[r])
    <3>1. "Slow" # "Healthy"
      OBVIOUS
    <3> QED BY <1>5, <2>1, <2>3, <3>1, Zenon DEF Exact, Missed, Filter!SlowOnes
  <2>4. Offered' = [Offered EXCEPT ![r] = working[r]]
    <3>1. pc'[r] = "forward" /\ \A s \in Client \ {r} : pc'[s] = pc[s]
      BY <1>2, <2>1, Zenon
    <3> QED BY <2>1, <3>1, OfferedAfter, Zenon
  <2>5. Refused' = Refused
    BY <2>1, Zenon DEF Refused
  <2>6. Filter!HealthyOnes(seen[r], working[r]) \/ Filter!SlowOnes(seen[r], working[r])
    BY <1>2, <2>2, <2>3, Zenon
  <2> QED BY <1>1, <2>1, <2>4, <2>5, <2>6, Zenon DEF Filter!Offer
<1>8. ASSUME NEW i \in working[r], select_backend(r, i)
      PROVE  \E found \in SUBSET DOMAIN seen[r] : \E j \in found : Filter!Offer(r, found, j)
  BY <1>5, <1>7, <1>8, Zenon DEF select_backend
<1> QED BY <1>3, <1>4, <1>6, <1>8, Zenon DEF RequestStep

(* The end of a request.                                                   *)
LEMMA RequestEndsFilter ==
  ASSUME IInv, NEW r \in Client, MiddlewareAnswers(r) \/ BackendAnswers(r) \/ ResponseSent(r)
  PROVE  Filter!Answer(r) \/ Filter!Leave(r)
<1>inv. ServerTypeOK /\ ClientInv(r)
  BY Zenon DEF IInv, TypeOK
<1>1. pc \in [Client -> {"idle", "scan", "forward", "done"}] /\ DOMAIN response = Client
  BY <1>inv, Zenon DEF ServerTypeOK
<1>2. ASSUME NEW answer \in {"middleware", "backend", "backend_error"}, Forwarded(r, answer)
      PROVE  Filter!Answer(r)
  <2>1. /\ pc[r] = "forward" /\ response[r] = "none"
        /\ pc' = [pc EXCEPT ![r] = "done"] /\ response' = [response EXCEPT ![r] = answer]
        /\ UNCHANGED <<healthiness, pool, chosen, seen, working>>
    BY <1>inv, <1>2, Zenon DEF Forwarded, Answered, configVars, ClientInv
  <2>2. /\ response'[r] # "no_working_address" /\ \A s \in Client \ {r} : response'[s] = response[s]
        /\ DOMAIN pc = Client /\ pc[r] \in {"idle", "forward"}
    BY <1>1, <1>2, <2>1
  <2> QED BY <1>1, <2>1, <2>2, AnswerShows, Zenon
<1>3. CASE ResponseSent(r)
  <2>1. /\ pc[r] = "done" /\ pc'[r] = "idle" /\ response'[r] = "none"
        /\ \A s \in Client \ {r} : pc'[s] = pc[s] /\ working'[s] = working[s] /\ response'[s] = response[s]
    BY <1>inv, <1>3, Zenon DEF ResponseSent, ServerTypeOK
  <2>2. Offered' = Offered
    BY <2>1 DEF Offered
  <2>3. Refused' = Refused \ {r}
    BY <2>1 DEF Refused
  <2> QED BY <1>3, <2>2, <2>3, Zenon DEF ResponseSent, configVars, NoPool, Filter!Leave
<1>4. \A server : (IF server = "refused" THEN "backend_error" ELSE "backend") \in {"middleware", "backend", "backend_error"}
  BY Zenon
<1> QED BY <1>2, <1>3, <1>4, Zenon DEF MiddlewareAnswers, BackendAnswers

(* Every step is a step of the filter's contract, or does not show.        *)
LEMMA NextFilter == ASSUME IInv, [Next]_vars PROVE [Filter!Next]_(Filter!vars)
<1>1. CASE ReloadConfig
  BY <1>1, ReloadFilter, Zenon DEF Filter!Next
<1>2. CASE WatchHealth
  <2>1. CASE (LoadInterval \/ SleepOver \/ StartChecks \/ SecondTick) /\ UNCHANGED serverVars
    BY <2>1, FilterStutters, Zenon
      DEF LoadInterval, SleepOver, StartChecks, SecondTick, configVars, serverVars
  <2> QED BY <1>2, <2>1, FinishCheckFilter, Zenon DEF WatchHealth, Filter!Next
<1>3. CASE ServeRequest
  <2>1. PICK r \in Client :
          CallRequest(r) \/ RequestStep(r) \/ MiddlewareAnswers(r) \/ BackendAnswers(r) \/ ResponseSent(r)
    BY <1>3, Zenon DEF ServeRequest
  <2> QED BY <2>1, CallFilter, RequestStepFilter, RequestEndsFilter, Zenon DEF Filter!Next
<1>4. CASE ChangeServer
  BY <1>4, FilterStutters, Zenon DEF ChangeServer, ServerChanges, configVars, serverVars
<1>5. CASE UNCHANGED vars
  BY <1>5, FilterStutters, Zenon DEF vars, configVars, serverVars
<1> QED BY <1>1, <1>2, <1>3, <1>4, <1>5, Zenon DEF Next

(* The health filter of call(): two passes over cells that another thread  *)
(* stores to do what HealthFilter promises in one step, for any number of  *)
(* clients, addresses, configurations and reloads.                         *)
THEOREM FilterKeepsContract == Spec => ImplementsHealthFilter
BY InitFilter, NextFilter, Invariance, PTL DEF Spec, ImplementsHealthFilter, Filter!Spec
-----------------------------------------------------------------------------
(* Checks are in flight only while the loop waits for them.                *)
ChecksAreJoined == watcher # "checking" => DOMAIN previous = {}

(* Every step keeps it so, and takes checks out of flight one by one, each *)
(* when it ends.                                                           *)
LEMMA NextJoins ==
  ASSUME ChecksAreJoined, [Next]_vars
  PROVE  /\ ChecksAreJoined'
         /\ DOMAIN previous \subseteq DOMAIN previous' \/ \E c \in DOMAIN previous : FinishCheck(c)
<1>1. CASE UNCHANGED <<watcher, previous>>
  BY <1>1 DEF ChecksAreJoined
<1>2. CASE WatchHealth
  <2>1. CASE LoadInterval \/ SleepOver \/ SecondTick
    BY <2>1 DEF LoadInterval, SleepOver, SecondTick, ChecksAreJoined
  <2>2. CASE StartChecks
    BY <2>2 DEF StartChecks, ChecksAreJoined
  <2>3. ASSUME NEW c \in DOMAIN previous, FinishCheck(c) PROVE ChecksAreJoined'
    BY <2>3 DEF FinishCheck, ChecksAreJoined
  <2> QED BY <1>2, <2>1, <2>2, <2>3, Zenon DEF WatchHealth
<1> QED BY <1>1, <1>2, Zenon DEF Next, ReloadConfig, ServeRequest, ChangeServer, ServerChanges, vars, healthVars

(* A step changes no cell but the one whose check ends.                    *)
LEMMA NextShowsVerdict ==
  ASSUME IInv, ChecksAreJoined, [Next]_vars
  PROVE  \A c \in DOMAIN healthiness :
           healthiness'[c] = IF c \in DOMAIN previous \ DOMAIN previous'
                             THEN CheckResult(c, servers[AddressOf(c)]) ELSE healthiness[c]
<1>inv. RuntimeConfigTypeOK /\ HealthTypeOK /\ NoLostHealthUpdate
  BY Zenon DEF IInv, TypeOK
<1>1. ASSUME NEW d \in DOMAIN previous, FinishCheck(d)
      PROVE  /\ DOMAIN previous \ DOMAIN previous' = {d} /\ d \in DOMAIN healthiness
             /\ healthiness' = [healthiness EXCEPT ![d] = CheckResult(d, servers[AddressOf(d)])]
  <2> DEFINE result == CheckResult(d, servers[AddressOf(d)])
  <2>1. d \in DOMAIN healthiness /\ healthiness[d] = previous[d]
    BY <1>inv DEF HealthTypeOK, RuntimeConfigTypeOK, NoLostHealthUpdate
  <2>2. /\ healthiness' = IF previous[d] # result THEN [healthiness EXCEPT ![d] = result] ELSE healthiness
        /\ DOMAIN previous' = DOMAIN previous \ {d}
    BY <1>1 DEF FinishCheck
  <2>3. previous[d] = result => healthiness = [healthiness EXCEPT ![d] = result]
    BY <1>inv, <2>1 DEF RuntimeConfigTypeOK
  <2>4. DOMAIN previous \ DOMAIN previous' = {d}
    BY <2>2, Zenon
  <2> QED BY <2>1, <2>2, <2>3, <2>4, Zenon
<1>2. CASE \E d \in DOMAIN previous : FinishCheck(d)
  BY <1>1, <1>2, Zenon
<1>3. CASE DOMAIN previous \subseteq DOMAIN previous' /\ \A c \in DOMAIN healthiness : healthiness'[c] = healthiness[c]
  BY <1>3, Zenon
<1>4. CASE ReloadConfig
  <2>1. UNCHANGED previous /\ \E toml \in TomlConfigs : StoreConfig(toml)
    BY <1>4, Zenon DEF ReloadConfig, healthVars
  <2> QED BY <1>inv, <1>3, <2>1, StoreKeepsCells, Zenon
<1>5. CASE UNCHANGED configVars
  BY <1>2, <1>3, <1>5, NextJoins, Zenon DEF configVars
<1>6. ReloadConfig \/ UNCHANGED configVars \/ \E d \in DOMAIN previous : FinishCheck(d)
  <2>1. ASSUME NEW r \in Client, CallRequest(r) \/ RequestStep(r) \/ MiddlewareAnswers(r) \/ BackendAnswers(r) \/ ResponseSent(r)
        PROVE  UNCHANGED configVars
    BY <2>1, Zenon DEF CallRequest, CallWithChallenge, CallWithoutPool, CallWithPool, RequestStep,
         LoadHealthiness, ScanForSlow, AbortEarly, select_backend, MiddlewareAnswers,
         BackendAnswers, Forwarded, ResponseSent
  <2> QED BY <2>1, Zenon DEF Next, WatchHealth, LoadInterval, SleepOver, StartChecks, SecondTick,
           ServeRequest, ChangeServer, ServerChanges, vars
<1> QED BY <1>2, <1>4, <1>5, <1>6, Zenon

(* check_server_health_once stores only what differs from the value it     *)
(* started from; still a cell always shows the verdict of its last check,  *)
(* for any servers, pools that share them, and reloads.                    *)
THEOREM VerdictsReachTheCells == Spec => CellsShowLastVerdict
<1>1. Init => ChecksAreJoined
  BY DEF Init, HealthInit, ChecksAreJoined
<1>2. ChecksAreJoined /\ [Next]_vars => ChecksAreJoined'
  BY NextJoins
<1>3. IInv /\ ChecksAreJoined /\ [Next]_vars =>
        [\A c \in DOMAIN healthiness :
           healthiness'[c] = IF c \in DOMAIN previous \ DOMAIN previous'
                             THEN CheckResult(c, servers[AddressOf(c)]) ELSE healthiness[c]]_vars
  BY NextShowsVerdict, Zenon
<1> QED BY <1>1, <1>2, <1>3, Invariance, PTL DEF Spec, CellsShowLastVerdict
-----------------------------------------------------------------------------
(* A step that leaves the pass and the position of a scan alone.           *)
LEMMA AheadFrame ==
  ASSUME NEW r, pool'[r] = pool[r], wanted'[r] = wanted[r], pos'[r] = pos[r],
         loaded'[pool[r][1]] = loaded[pool[r][1]]
  PROVE  Ahead(r)' = Ahead(r)
BY DEF Ahead, Positions, Pool

(* What is behind a number is not the number.                              *)
LEMMA Behind == \A i \in Nat : i >= i /\ ~(i >= i + 1) /\ \A j \in Nat : j >= i + 1 => j >= i
OBVIOUS

(* A read takes itself out of what is ahead.                               *)
LEMMA AheadAfterRead ==
  ASSUME IInv, NEW r \in Client, LoadHealthiness(r)
  PROVE  Ahead(r)' \subseteq Ahead(r) /\ Ahead(r)' # Ahead(r)
<1> DEFINE P == Positions(pool[r][1], pool[r][2])
           later == IF wanted[r] = "Healthy" THEN {<<"Slow", i>> : i \in {0} \cup P} ELSE {}
<1>inv. RuntimeConfigTypeOK /\ ServerTypeOK /\ RequestTypeOK(r) /\ pool[r] # NoPool
  BY Zenon DEF IInv, TypeOK, ServerTypeOK, ClientInv, LoadHealthiness
<1>1. /\ pos[r] \in P /\ pos'[r] = pos[r] + 1
      /\ UNCHANGED <<loaded, pool, wanted>>
  BY <1>inv, Zenon DEF LoadHealthiness, configVars, ServerTypeOK
<1>2. \A i \in P : i \in Nat
  BY <1>inv, PositionsAreNumbers DEF RequestTypeOK
<1>3. \A i \in P : i >= pos[r] + 1 => i >= pos[r]
  BY <1>1, <1>2, Behind, Zenon
<1>4. pos[r] >= pos[r] /\ ~(pos[r] >= pos[r] + 1)
  BY <1>1, <1>2, Behind, Zenon
<1>5. /\ Ahead(r) = {<<wanted[r], i>> : i \in {j \in P : j >= pos[r]}} \cup later
      /\ Ahead(r)' = {<<wanted[r], i>> : i \in {j \in P : j >= pos[r] + 1}} \cup later
  <2> DEFINE F(w, n, Q) == {<<w, i>> : i \in {j \in Q : j >= n}}
                             \cup (IF w = "Healthy" THEN {<<"Slow", i>> : i \in {0} \cup Q} ELSE {})
  <2>1. Ahead(r) = F(wanted[r], pos[r], P) /\ Ahead(r)' = F(wanted'[r], pos'[r], P')
    BY Zenon DEF Ahead
  <2>2. P' = P /\ wanted'[r] = wanted[r]
    BY <1>1, Zenon DEF Positions, Pool
  <2> HIDE DEF F
  <2>3. Ahead(r) = F(wanted[r], pos[r], P) /\ Ahead(r)' = F(wanted[r], pos[r] + 1, P)
    BY <1>1, <2>1, <2>2, Zenon
  <2> QED BY <2>3, Zenon DEF F
<1>6. <<wanted[r], pos[r]>> \notin later /\ \A i : <<wanted[r], i>> = <<wanted[r], pos[r]>> => i = pos[r]
  OBVIOUS
<1>7. Ahead(r)' \subseteq Ahead(r)
  BY <1>3, <1>5, Zenon
<1>8. <<wanted[r], pos[r]>> \in Ahead(r) /\ <<wanted[r], pos[r]>> \notin Ahead(r)'
  BY <1>1, <1>4, <1>5, <1>6, Zenon
<1> QED BY <1>7, <1>8, Zenon

(* So does the turn to the second pass, which leaves only its own reads.   *)
LEMMA AheadAfterTurn ==
  ASSUME IInv, NEW r \in Client, ScanForSlow(r)
  PROVE  Ahead(r)' \subseteq Ahead(r) /\ Ahead(r)' # Ahead(r)
<1> DEFINE P == Positions(pool[r][1], pool[r][2])
<1>1. /\ wanted[r] = "Healthy" /\ wanted'[r] = "Slow"
      /\ UNCHANGED <<loaded, pool>>
  BY Zenon DEF ScanForSlow, configVars, IInv, TypeOK, ServerTypeOK
<1>2. \A i \in P : i \in Nat /\ i >= 1
  <2>1. PassIsOver(r)
    BY Zenon DEF ScanForSlow
  <2> QED BY <2>1, PassWasExact, Zenon
<1>3. /\ {<<"Slow", i>> : i \in {0} \cup P} \subseteq Ahead(r)
      /\ Ahead(r)' \subseteq {<<"Slow", i>> : i \in P}
  BY <1>1, Zenon DEF Ahead, Positions, Pool
<1>4. <<"Slow", 0>> \in Ahead(r) /\ <<"Slow", 0>> \notin Ahead(r)'
  BY <1>2, <1>3
<1> QED BY <1>3, <1>4, Zenon

(* A scan that goes on has made one of these two steps, or none.           *)
LEMMA ScanSteps ==
  ASSUME IInv, [Next]_vars, NEW r \in Client, pc[r] = "scan", pc'[r] = "scan"
  PROVE  \/ LoadHealthiness(r) \/ ScanForSlow(r)
         \/ /\ pool'[r] = pool[r] /\ wanted'[r] = wanted[r] /\ pos'[r] = pos[r]
            /\ loaded'[pool[r][1]] = loaded[pool[r][1]]
<1>inv. RuntimeConfigTypeOK /\ ServerTypeOK /\ RequestTypeOK(r) /\ pool[r] # NoPool
  BY Zenon DEF IInv, TypeOK, ServerTypeOK, ClientInv
<1>1. CASE ReloadConfig
  <2>1. UNCHANGED serverVars /\ \E toml \in TomlConfigs : StoreConfig(toml)
    BY <1>1, Zenon DEF ReloadConfig
  <2> QED BY <1>inv, <2>1, StoreKeepsGenerations, Zenon DEF RequestTypeOK, serverVars
<1>2. CASE WatchHealth \/ ChangeServer \/ UNCHANGED vars
  BY <1>2, Zenon DEF WatchHealth, LoadInterval, SleepOver, StartChecks, SecondTick, FinishCheck,
       ChangeServer, ServerChanges, vars, serverVars, configVars
<1>3. ASSUME NEW s \in Client,
             CallRequest(s) \/ RequestStep(s) \/ MiddlewareAnswers(s) \/ BackendAnswers(s) \/ ResponseSent(s)
      PROVE  \/ LoadHealthiness(r) \/ ScanForSlow(r)
             \/ /\ pool'[r] = pool[r] /\ wanted'[r] = wanted[r] /\ pos'[r] = pos[r]
                /\ loaded'[pool[r][1]] = loaded[pool[r][1]]
  <2>1. loaded' = loaded
    BY <1>3, Zenon DEF CallRequest, CallWithChallenge, CallWithoutPool, CallWithPool, RequestStep,
         LoadHealthiness, ScanForSlow, AbortEarly, select_backend, MiddlewareAnswers,
         BackendAnswers, Forwarded, ResponseSent, configVars
  <2>2. CASE s = r
    BY <1>inv, <1>3, <2>2, Zenon DEF CallRequest, CallWithChallenge, CallWithoutPool, CallWithPool, RequestStep,
         AbortEarly, select_backend, MiddlewareAnswers, BackendAnswers, Forwarded, Answered,
         ResponseSent, ServerTypeOK
  <2>3. CASE s # r
    BY <1>inv, <1>3, <2>1, <2>3, Zenon DEF CallRequest, CallWithChallenge, CallWithoutPool, CallWithPool, RequestStep,
         LoadHealthiness, ScanForSlow, AbortEarly, select_backend, MiddlewareAnswers,
         BackendAnswers, Forwarded, ResponseSent, ServerTypeOK
  <2> QED BY <2>2, <2>3, Zenon
<1> QED BY <1>1, <1>2, <1>3, Zenon DEF Next, ServeRequest

(* The two passes of call() come to an end by themselves: a step of a scan *)
(* leaves less of it, for pools of any size, and nobody else's step leaves *)
(* more.                                                                   *)
THEOREM ScansGoForward == Spec => ScanGoesForward
<1> DEFINE A == \A r \in Client : pc[r] = "scan" /\ pc'[r] = "scan" =>
                  /\ Ahead(r)' \subseteq Ahead(r)
                  /\ <<wanted'[r], pos'[r]>> = <<wanted[r], pos[r]>> \/ Ahead(r)' # Ahead(r)
<1>1. ASSUME IInv, [Next]_vars PROVE [A]_vars
  <2>1. SUFFICES ASSUME NEW r \in Client, pc[r] = "scan", pc'[r] = "scan"
                 PROVE  /\ Ahead(r)' \subseteq Ahead(r)
                        /\ <<wanted'[r], pos'[r]>> = <<wanted[r], pos[r]>> \/ Ahead(r)' # Ahead(r)
    BY Zenon
  <2> QED BY <1>1, <2>1, ScanSteps, AheadFrame, AheadAfterRead, AheadAfterTurn, Zenon
<1> QED BY <1>1, Invariance, PTL DEF Spec, ScanGoesForward

=============================================================================
