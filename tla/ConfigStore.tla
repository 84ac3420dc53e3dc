----------------------------- MODULE ConfigStore -----------------------------
(***************************************************************************)
(* The configuration file and the daemon's copy of it: what loads          *)
(* (src/src/config.rs), the commands that edit the file and tell the       *)
(* daemon (src/src/cli.rs), and the requests that edit the copy and write  *)
(* it back (src/src/daemon.rs).                                            *)
(*                                                                         *)
(* One command or request at a time; RigManager interleaves them.  A save  *)
(* may be cut short, a command may end before it has told the daemon, the  *)
(* file may be edited by hand, and the daemon comes and goes.  What a      *)
(* command refuses for the sake of its arguments alone changes nothing and *)
(* is left out.                                                            *)
(***************************************************************************)
EXTENDS Naturals, FiniteSets

CONSTANTS
  Wallets, Endpoints, Nodes,  \* the names of entries
  Pools,        \* the endpoints that are mining pools, not pages
  Logins,       \* the pools whose entry has a user
  Rigs,         \* the names of rigs
  Coins,        \* what they mine
  None,         \* no rig; no wallet; a url instead of the name of an endpoint
  Garbled,      \* a file that does not parse, or has a name twice
  HandWritten,  \* what a user may write by hand
  MaxUntold     \* bound: changes a running daemon has not been told of

Items == Wallets \union Endpoints \union Nodes

\* own: the rig's url, else a [[rig.target]]; user: it has a user; known: its
\* algorithm exists.
Target == [coin: Coins, own: BOOLEAN, user: BOOLEAN, wallet: Wallets \union {None},
           known: BOOLEAN]

\* known: its algorithm exists; pinned: its thread count is fixed.
Rig == [targets: SUBSET Target, wallet: Wallets \union {None}, known: BOOLEAN,
        enabled: BOOLEAN, pinned: BOOLEAN]

\* remote: whether other machines may connect, of the settings.
Config == [items: SUBSET Items, rigs: [Rigs -> Rig \union {None}], remote: BOOLEAN]

ASSUME NamesAssumption == None \notin Items \union Rig
ASSUME PoolsAssumption == Pools \subseteq Endpoints /\ Logins \subseteq Pools
ASSUME GarbledAssumption == Garbled \notin Config
ASSUME HandWrittenAssumption == HandWritten \subseteq Config
ASSUME BoundAssumption == MaxUntold \in Nat

VARIABLES
  file,    \* the file's contents; there being none is like an empty one
  up,      \* whether the daemon runs
  copy,    \* its copy
  broken,  \* config_error
  untold   \* changes of the file since it last read or wrote it

vars == <<file, up, copy, broken, untold>>

NoRigs == [r \in Rigs |-> None]
Default == [items |-> {}, rigs |-> NoRigs, remote |-> FALSE]

TypeOK ==
  /\ file \in Config \union {Garbled}
  /\ up \in BOOLEAN
  /\ copy \in Config
  /\ broken \in BOOLEAN
  /\ untold \in 0..MaxUntold

Init ==
  /\ file = Default /\ copy = Default
  /\ up = FALSE /\ broken = FALSE /\ untold = 0

-----------------------------------------------------------------------------
(* What loads.                                                             *)

\* login(): a user, or a wallet that is configured, the rig's if not its own.
Paid(t, rig, cfg) ==
  t.user \/ (IF t.wallet = None THEN rig.wallet ELSE t.wallet) \in cfg.items

Expands(rig, cfg) ==
  /\ rig.targets # {}
  /\ \A t \in rig.targets : Paid(t, rig, cfg)
  /\ \A t, u \in rig.targets : t.coin = u.coin => t = u

\* validate(): the algorithms of a rig that does not expand are not looked at.
Sound(cfg) ==
  \A r \in Rigs : cfg.rigs[r] # None =>
    /\ cfg.rigs[r].targets # {}
    /\ Expands(cfg.rigs[r], cfg) => \A t \in cfg.rigs[r].targets : t.known

Loads(contents) == contents # Garbled /\ Sound(contents)

\* resolve_pool(): a url, or an endpoint that is a pool.
Resolves(ref, cfg) == ref = None \/ ref \in Pools \intersect cfg.items

-----------------------------------------------------------------------------
(* Writing the file and telling the daemon of it.                          *)

\* Mutant of Applied: the daemon reads the file, and forgets to swap it in.
AppliedNowhere(contents) == UNCHANGED copy /\ broken' = FALSE

Applied(contents) == copy' = contents /\ broken' = FALSE

\* Reload: what does not load is refused, and changes nothing.
Reloaded(contents) ==
  /\ IF up /\ Loads(contents) THEN Applied(contents) ELSE UNCHANGED <<copy, broken>>
  /\ untold' = 0
  /\ UNCHANGED up

Untold ==
  /\ up => untold < MaxUntold
  /\ untold' = IF up THEN untold + 1 ELSE 0
  /\ UNCHANGED <<up, copy, broken>>

\* The rigs that are written before a cut: some of them, and of one perhaps not all of
\* its [[rig.target]] entries.
Begun(rigs) ==
  UNION {{[r \in Rigs |-> CASE r \in whole -> rigs[r]
                            [] r = torn /\ torn \notin whole -> [rigs[r] EXCEPT !.targets = part]
                            [] OTHER -> None] : part \in SUBSET rigs[torn].targets}
         : torn \in {r \in Rigs : rigs[r] # None}, whole \in SUBSET Rigs}

\* save() truncates and writes: settings, wallets, rigs, endpoints, nodes.  Cut
\* between two entries it leaves a smaller configuration, within one Garbled.
Prefixes(cfg) ==
  LET of(kind) == cfg.items \intersect kind
      upto(items, rigs) == [cfg EXCEPT !.items = items, !.rigs = rigs]
  IN  {Default, Garbled}
        \union {upto(part, NoRigs) : part \in SUBSET of(Wallets)}
        \union {upto(of(Wallets), rigs) : rigs \in Begun(cfg.rigs)}
        \union {upto(of(Wallets) \union part, cfg.rigs) : part \in SUBSET of(Endpoints)}
        \union {upto(of(Wallets \union Endpoints) \union part, cfg.rigs)
                  : part \in SUBSET of(Nodes)}

CutShort(cfg) == file' \in Prefixes(cfg) /\ Untold

\* A command's save and nudge_daemon(), which may fail, or never be reached.
Save(cfg, whole) ==
  IF whole THEN file' = cfg /\ (Reloaded(cfg) \/ (up /\ Untold))
  ELSE CutShort(cfg)

\* Mutant of Mutate: validate() is left out.
MutateUnchecked(cfg, whole) ==
  /\ up
  /\ IF whole THEN file' = cfg /\ Applied(cfg) /\ untold' = 0 /\ UNCHANGED up
     ELSE CutShort(cfg)

\* A request's draft is validated, saved and swapped in.
Mutate(cfg, whole) ==
  /\ up
  /\ Sound(cfg)
  /\ IF whole THEN file' = cfg /\ Applied(cfg) /\ untold' = 0 /\ UNCHANGED up
     ELSE CutShort(cfg)

-----------------------------------------------------------------------------
(* Commands.  Each begins with Config::load().                             *)

\* add refuses a name that exists, rm one that does not.
ItemEdits(cfg, kind) ==
  {[cfg EXCEPT !.items = @ \union {x}] : x \in kind \ cfg.items} \union
  {[cfg EXCEPT !.items = @ \ {x}] : x \in kind \intersect cfg.items}

WalletCommand(whole) ==
  Loads(file) /\ \E cfg \in ItemEdits(file, Wallets) : Save(cfg, whole)

EndpointCommand(whole) ==
  Loads(file) /\ \E cfg \in ItemEdits(file, Endpoints) : Save(cfg, whole)

\* add also wants an answer from the node.
NodeCommand(whole) ==
  Loads(file) /\ \E cfg \in ItemEdits(file, Nodes) : Save(cfg, whole)

\* The rigs there are, and what becomes of one.
Configured(cfg) == {r \in Rigs : cfg.rigs[r] # None}
Edited(cfg, r, rig) == [cfg EXCEPT !.rigs[r] = rig]

Mines(rig, coin) == \E t \in rig.targets : t.coin = coin
With(rig, target) == [rig EXCEPT !.targets = @ \union {target}]

References == Endpoints \union {None}
Payees(cfg) == (Wallets \intersect cfg.items) \union {None}

\* What ref stands for brings its own user along.
NewTarget(coin, own, ref, user, wallet, known) ==
  [coin |-> coin, own |-> own, user |-> user \/ ref \in Logins, wallet |-> wallet,
   known |-> known]

NewRig(coin, ref, user, wallet, known, enabled) ==
  [targets |-> {NewTarget(coin, TRUE, ref, user, None, known)}, wallet |-> wallet,
   known |-> known, enabled |-> enabled, pinned |-> FALSE]

\* Mutant of RigAdd: any algorithm will do.
RigAddAny(whole) ==
  /\ Loads(file)
  /\ \E r \in Rigs \ Configured(file), coin \in Coins, ref \in References,
        user, enabled, known \in BOOLEAN, wallet \in Payees(file) :
       /\ Resolves(ref, file)
       /\ user \/ wallet # None \/ ref \in Logins
       /\ Save(Edited(file, r, NewRig(coin, ref, user, wallet, known, enabled)), whole)

\* The algorithm and the wallet must exist, and somebody must be paid.
RigAdd(whole) ==
  /\ Loads(file)
  /\ \E r \in Rigs \ Configured(file), coin \in Coins, ref \in References,
        user, enabled \in BOOLEAN, wallet \in Payees(file) :
       /\ Resolves(ref, file)
       /\ user \/ wallet # None \/ ref \in Logins
       /\ Save(Edited(file, r, NewRig(coin, ref, user, wallet, TRUE, enabled)), whole)

RigRm(whole) ==
  Loads(file) /\ \E r \in Configured(file) : Save(Edited(file, r, None), whole)

\* A coin's algorithm is given and exists, or is the rig's.
RigCoin(whole) ==
  /\ Loads(file)
  /\ \E r \in Configured(file), coin \in Coins, ref \in References,
        user \in BOOLEAN, wallet \in Payees(file) :
       \E known \in {TRUE, file.rigs[r].known} :
         LET rig == With(file.rigs[r], NewTarget(coin, FALSE, ref, user, wallet, known))
         IN /\ Resolves(ref, file)
            /\ ~ Mines(file.rigs[r], coin)
            /\ Expands(rig, file)
            /\ Save(Edited(file, r, rig), whole)

\* The rig's own coin stays.
RigUncoin(whole) ==
  /\ Loads(file)
  /\ \E r \in Configured(file) : \E gone \in file.rigs[r].targets :
       /\ ~ gone.own
       /\ Save(Edited(file, r, [file.rigs[r] EXCEPT
                 !.targets = {t \in @ : t.own \/ t.coin # gone.coin}]), whole)

\* Mutant of SetEnabled: it is written, and the daemon is not told.
SetEnabledUntold(whole) ==
  /\ Loads(file)
  /\ \E r \in Configured(file), enabled \in BOOLEAN :
       LET cfg == Edited(file, r, [file.rigs[r] EXCEPT !.enabled = enabled])
       IN /\ file' \in IF whole THEN {cfg} ELSE Prefixes(cfg)
          /\ UNCHANGED <<up, copy, broken, untold>>

SetEnabled(whole) ==
  /\ Loads(file)
  /\ \E r \in Configured(file), enabled \in BOOLEAN :
       Save(Edited(file, r, [file.rigs[r] EXCEPT !.enabled = enabled]), whole)

\* The daemon is told of the sessions' threads, not of the file.
RigThreads(whole) ==
  /\ Loads(file)
  /\ \E r \in Configured(file), pinned \in BOOLEAN :
       LET cfg == Edited(file, r, [file.rigs[r] EXCEPT !.pinned = pinned])
       IN file' \in (IF whole THEN {cfg} ELSE Prefixes(cfg)) /\ Untold

\* Needs a restart of the daemon, and says so.
RemoteCommand(whole) ==
  /\ Loads(file)
  /\ \E remote \in BOOLEAN :
       LET cfg == [file EXCEPT !.remote = remote]
       IN file' \in (IF whole THEN {cfg} ELSE Prefixes(cfg)) /\ Untold

\* --force: the starter configuration, which has no entries.  Cut, it may be anything
\* between nothing and that.
ConfigInit(whole) ==
  file' \in (IF whole THEN {Default} ELSE {Default, Garbled}) /\ Untold

Commands(whole) ==
  \/ WalletCommand(whole) \/ EndpointCommand(whole) \/ NodeCommand(whole)
  \/ RigAdd(whole) \/ RigRm(whole) \/ RigCoin(whole) \/ RigUncoin(whole)
  \/ SetEnabled(whole) \/ RigThreads(whole) \/ RemoteCommand(whole)

-----------------------------------------------------------------------------
(* Requests to the daemon.  Each begins with its copy.                     *)

WalletRequest(whole) ==
  \E cfg \in ItemEdits(copy, Wallets) : Mutate(cfg, whole)

EndpointRequest(whole) ==
  \E cfg \in ItemEdits(copy, Endpoints) : Mutate(cfg, whole)

NodeRequest(whole) ==
  \E cfg \in ItemEdits(copy, Nodes) : Mutate(cfg, whole)

\* Neither the algorithm nor the wallet is looked at.
AddRig(whole) ==
  \E r \in Rigs \ Configured(copy), coin \in Coins, ref \in References,
     user, known \in BOOLEAN, wallet \in Wallets \union {None} :
    /\ Resolves(ref, copy)
    /\ user \/ wallet # None \/ ref \in Logins
    /\ Mutate(Edited(copy, r, NewRig(coin, ref, user, wallet, known, TRUE)), whole)

AddRigCoin(whole) ==
  \E r \in Configured(copy), coin \in Coins, ref \in References,
     wallet \in Wallets \union {None} :
    LET old == copy.rigs[r]
        rig == With(old, NewTarget(coin, FALSE, ref, FALSE, wallet, old.known))
    IN /\ Resolves(ref, copy)
       /\ ~ Mines(old, coin)
       /\ Expands(rig, copy)
       /\ Mutate(Edited(copy, r, rig), whole)

RemoveRig(whole) ==
  \E r \in Configured(copy) : Mutate(Edited(copy, r, None), whole)

SetRigEnabled(whole) ==
  \E r \in Configured(copy), enabled \in BOOLEAN :
    Mutate(Edited(copy, r, [copy.rigs[r] EXCEPT !.enabled = enabled]), whole)

Requests(whole) ==
  \/ WalletRequest(whole) \/ EndpointRequest(whole) \/ NodeRequest(whole)
  \/ AddRig(whole) \/ AddRigCoin(whole) \/ RemoveRig(whole) \/ SetRigEnabled(whole)

-----------------------------------------------------------------------------
(* The daemon and the user.                                                *)

\* `cryptocli daemon reload`, or r in the dashboard.
Reload == up /\ Reloaded(file) /\ UNCHANGED file

\* A file that does not load does not keep the daemon from starting.
Start ==
  /\ ~ up /\ up' = TRUE
  /\ copy' = IF Loads(file) THEN file ELSE Default
  /\ broken' = ~ Loads(file)
  /\ untold' = 0
  /\ UNCHANGED file

\* Stopped or killed, all it leaves is the file.
Stop ==
  /\ up /\ up' = FALSE
  /\ copy' = Default /\ broken' = FALSE /\ untold' = 0
  /\ UNCHANGED file

EditByHand == file' \in HandWritten \union {Garbled} /\ Untold

Next ==
  \/ \E whole \in BOOLEAN : Commands(whole) \/ ConfigInit(whole) \/ Requests(whole)
  \/ Reload \/ Start \/ Stop \/ EditByHand

Spec == Init /\ [][Next]_vars

-----------------------------------------------------------------------------
(* Properties.                                                             *)

\* daemon.rs 315-317: no edit, reload or start brings into use a configuration that
\* does not validate.
OnlySoundIsApplied == up => Sound(copy)

\* A daemon that has been told of every change works with what the file says, if that
\* loads, and then shows no error (README 238: edits "are picked up by a running daemon").
SeenIsApplied ==
  up /\ untold = 0 /\ Loads(file) => copy = file /\ ~ broken

\* Every rig has a url of its own and no algorithm that does not exist.
WellFormed(cfg) ==
  \A r \in Configured(cfg) :
    /\ cfg.rigs[r].known
    /\ \E t \in cfg.rigs[r].targets : t.own
    /\ \A t \in cfg.rigs[r].targets : t.known

\* save() does not validate: that a command never leaves a file which the next one, or
\* the next daemon, refuses to load rests on the checks of each command.
KeepsLoading ==
  [][Loads(file) /\ WellFormed(file) /\ Commands(TRUE) => Loads(file') /\ WellFormed(file')]_vars

\* How many entries two configurations differ in.
Apart(a, b) ==
  Cardinality((a.items \ b.items) \union (b.items \ a.items))
    + Cardinality({r \in Rigs : a.rigs[r] # b.rigs[r]})
    + (IF a.remote = b.remote THEN 0 ELSE 1)

\* A command begins with the file, a request with the daemon's copy of it; as long as the
\* daemon has been told of every change, either alters one entry and loses no other.
EditsLoseNothing ==
  [][untold = 0 /\ Loads(file) /\ (Commands(TRUE) \/ Requests(TRUE))
       => Apart(file, file') <= 1]_vars
=============================================================================
