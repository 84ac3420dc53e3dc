-------------------------- MODULE ConfigStore_proofs --------------------------
(***************************************************************************)
(* Proofs about ConfigStore, for all sets of names, coins and files        *)
(* written by hand.                                                        *)
(*                                                                         *)
(* Every command and every request comes down to one edit of the           *)
(* configuration it began with, written by Save, Mutate or, for the        *)
(* commands that tell the daemon nothing, beside Untold (CommandIsOneEdit, *)
(* RequestIsOneEdit).  The invariants are then a matter of these three,    *)
(* and what an edit alters one of OneEdit.                                 *)
(***************************************************************************)
EXTENDS ConfigStore, FiniteSetTheorems, TLAPS

\* The file gets new contents and nobody learns of it.
Unseen(contents) == file' \in contents /\ Untold

\* b is a with one entry more, less or changed.
ItemEdit(a, b) == \E x \in Items : b = [a EXCEPT !.items = @ \union {x}]
                                \/ b = [a EXCEPT !.items = @ \ {x}]
RigEdit(a, b) == \E r \in Rigs, rig \in Rig \union {None} : b = Edited(a, r, rig)
RemoteEdit(a, b) == \E remote \in BOOLEAN : b = [a EXCEPT !.remote = remote]

OneEdit(a, b) == ItemEdit(a, b) \/ RigEdit(a, b) \/ RemoteEdit(a, b)

IInv == TypeOK /\ OnlySoundIsApplied /\ SeenIsApplied

-----------------------------------------------------------------------------
(* What edits yield.                                                       *)

\* Adding or removing an item is one edit.
LEMMA ItemEditsAreEdits ==
  ASSUME NEW cfg, NEW kind \in SUBSET Items, NEW new \in ItemEdits(cfg, kind)
  PROVE  ItemEdit(cfg, new)
  BY DEF ItemEdits, ItemEdit

\* An edit of a configuration is a configuration.
LEMMA OneEditTyped ==
  ASSUME NEW cfg \in Config, NEW new, OneEdit(cfg, new)
  PROVE  new \in Config
<1>1. CASE ItemEdit(cfg, new)
  BY <1>1 DEF ItemEdit, Config
<1>2. CASE RigEdit(cfg, new)
  <2>1. PICK r \in Rigs, rig \in Rig \union {None} : new = Edited(cfg, r, rig)
    BY <1>2 DEF RigEdit
  <2>2. cfg.rigs \in [Rigs -> Rig \union {None}]
    BY DEF Config
  <2>3. [cfg.rigs EXCEPT ![r] = rig] \in [Rigs -> Rig \union {None}]
    BY <2>2
  <2> QED BY <2>1, <2>3 DEF Edited, Config
<1>3. CASE RemoteEdit(cfg, new)
  BY <1>3 DEF RemoteEdit, Config
<1> QED BY <1>1, <1>2, <1>3 DEF OneEdit

\* The configuration without entries is one, and it is sound.
LEMMA DefaultSound == Default \in Config /\ Sound(Default)
  BY DEF Default, NoRigs, Config, Sound

\* What a save leaves behind that is cut short.
LEMMA BegunTyped ==
  ASSUME NEW rigs \in [Rigs -> Rig \union {None}]
  PROVE  Begun(rigs) \subseteq [Rigs -> Rig \union {None}]
<1>1. ASSUME NEW torn \in Rigs, rigs[torn] # None, NEW whole \in SUBSET Rigs,
             NEW part \in SUBSET rigs[torn].targets
      PROVE  [r \in Rigs |-> CASE r \in whole -> rigs[r]
                               [] r = torn /\ torn \notin whole -> [rigs[r] EXCEPT !.targets = part]
                               [] OTHER -> None] \in [Rigs -> Rig \union {None}]
  <2>1. PICK rig \in Rig : rig = rigs[torn]
    BY <1>1
  <2>2. [rig EXCEPT !.targets = part] \in Rig
    BY <1>1, <2>1 DEF Rig
  <2> QED BY <2>1, <2>2
<1> QED BY <1>1 DEF Begun

LEMMA PrefixesTyped ==
  ASSUME NEW cfg \in Config
  PROVE  Prefixes(cfg) \subseteq Config \union {Garbled}
<1> DEFINE upto(items, rigs) == [cfg EXCEPT !.items = items, !.rigs = rigs]
<1>1. ASSUME NEW items \in SUBSET Items, NEW rigs \in [Rigs -> Rig \union {None}]
      PROVE  upto(items, rigs) \in Config
  BY <1>1 DEF Config
<1>2. /\ NoRigs \in [Rigs -> Rig \union {None}] /\ cfg.rigs \in [Rigs -> Rig \union {None}]
      /\ Begun(cfg.rigs) \subseteq [Rigs -> Rig \union {None}]
      /\ cfg.items \subseteq Items
  BY BegunTyped DEF NoRigs, Config
<1> DEFINE of(kind) == cfg.items \intersect kind
<1>3. \A kind : of(kind) \subseteq Items
  BY <1>2
<1> HIDE DEF upto
<1>4. /\ {upto(part, NoRigs) : part \in SUBSET of(Wallets)} \subseteq Config
      /\ {upto(of(Wallets), rigs) : rigs \in Begun(cfg.rigs)} \subseteq Config
  BY <1>1, <1>2, <1>3
<1>5. /\ {upto(of(Wallets) \union part, cfg.rigs) : part \in SUBSET of(Endpoints)} \subseteq Config
      /\ {upto(of(Wallets \union Endpoints) \union part, cfg.rigs)
            : part \in SUBSET of(Nodes)} \subseteq Config
  BY <1>1, <1>2, <1>3
<1> USE DEF upto
<1> QED BY <1>4, <1>5, DefaultSound DEF Prefixes

\* What RigAdd, RigCoin and their requests put into the configuration.
LEMMA NewTargetTyped ==
  ASSUME NEW coin \in Coins, NEW own \in BOOLEAN, NEW ref, NEW user \in BOOLEAN,
         NEW wallet \in Wallets \union {None}, NEW known \in BOOLEAN
  PROVE  NewTarget(coin, own, ref, user, wallet, known) \in Target
  BY DEF NewTarget, Target

LEMMA NewRigTyped ==
  ASSUME NEW coin \in Coins, NEW ref, NEW user \in BOOLEAN,
         NEW wallet \in Wallets \union {None}, NEW known \in BOOLEAN, NEW enabled \in BOOLEAN
  PROVE  NewRig(coin, ref, user, wallet, known, enabled) \in Rig
<1>1. NewTarget(coin, TRUE, ref, user, None, known) \in Target
  BY NewTargetTyped
<1> QED BY <1>1 DEF NewRig, Rig

LEMMA WithTyped ==
  ASSUME NEW rig \in Rig, NEW target \in Target
  PROVE  With(rig, target) \in Rig
  BY DEF With, Rig

\* A rig that is configured is a rig.
LEMMA ConfiguredTyped ==
  ASSUME NEW cfg \in Config, NEW r \in Configured(cfg)
  PROVE  r \in Rigs /\ cfg.rigs[r] \in Rig
  BY DEF Configured, Config

-----------------------------------------------------------------------------
(* Commands and requests are edits.                                        *)

\* Each command writes one edit of the file.
LEMMA CommandIsOneEdit ==
  ASSUME TypeOK, Loads(file), NEW whole \in BOOLEAN, Commands(whole)
  PROVE  \E cfg \in Config :
           /\ OneEdit(file, cfg)
           /\ \/ Save(cfg, whole)
              \/ Unseen(IF whole THEN {cfg} ELSE Prefixes(cfg))
<1>1. file \in Config
  BY DEF TypeOK, Loads
<1> SUFFICES \E cfg :
                /\ OneEdit(file, cfg)
                /\ \/ Save(cfg, whole)
                   \/ Unseen(IF whole THEN {cfg} ELSE Prefixes(cfg))
  BY <1>1, OneEditTyped
<1>2. ASSUME NEW kind \in SUBSET Items, NEW cfg \in ItemEdits(file, kind)
      PROVE  OneEdit(file, cfg)
  BY <1>2, ItemEditsAreEdits DEF OneEdit
<1>3. ASSUME NEW r \in Rigs, NEW rig \in Rig \union {None}
      PROVE  OneEdit(file, Edited(file, r, rig))
  BY <1>3 DEF OneEdit, RigEdit
<1>4. Wallets \subseteq Items /\ Endpoints \subseteq Items /\ Nodes \subseteq Items
  BY DEF Items
<1>5. CASE WalletCommand(whole)
  BY <1>2, <1>4, <1>5 DEF WalletCommand
<1>6. CASE EndpointCommand(whole)
  BY <1>2, <1>4, <1>6 DEF EndpointCommand
<1>7. CASE NodeCommand(whole)
  BY <1>2, <1>4, <1>7 DEF NodeCommand
<1>8. CASE RigAdd(whole)
  <2>1. PICK r \in Rigs \ Configured(file), coin \in Coins, ref \in References,
             user \in BOOLEAN, enabled \in BOOLEAN, wallet \in Payees(file) :
          Save(Edited(file, r, NewRig(coin, ref, user, wallet, TRUE, enabled)), whole)
    BY <1>8 DEF RigAdd
  <2>2. NewRig(coin, ref, user, wallet, TRUE, enabled) \in Rig
    BY NewRigTyped DEF Payees
  <2> QED BY <2>1, <2>2, <1>3
<1>9. CASE RigRm(whole)
  BY <1>9, <1>3, <1>1, ConfiguredTyped DEF RigRm
<1>10. CASE RigCoin(whole)
  <2>1. PICK r \in Configured(file), coin \in Coins, ref \in References,
             user \in BOOLEAN, wallet \in Payees(file) :
          \E known \in {TRUE, file.rigs[r].known} :
            Save(Edited(file, r, With(file.rigs[r],
                   NewTarget(coin, FALSE, ref, user, wallet, known))), whole)
    BY <1>10 DEF RigCoin
  <2>2. PICK known \in {TRUE, file.rigs[r].known} :
          Save(Edited(file, r, With(file.rigs[r],
                 NewTarget(coin, FALSE, ref, user, wallet, known))), whole)
    BY <2>1
  <2>3. r \in Rigs /\ file.rigs[r] \in Rig
    BY <1>1, ConfiguredTyped
  <2>4. known \in BOOLEAN
    BY <2>3 DEF Rig
  <2>5. NewTarget(coin, FALSE, ref, user, wallet, known) \in Target
    BY <2>4, NewTargetTyped DEF Payees
  <2>6. With(file.rigs[r], NewTarget(coin, FALSE, ref, user, wallet, known)) \in Rig
    BY <2>3, <2>5, WithTyped
  <2> QED BY <2>2, <2>3, <2>6, <1>3
<1>11. CASE RigUncoin(whole)
  <2>1. PICK r \in Configured(file) : \E gone \in file.rigs[r].targets :
          Save(Edited(file, r, [file.rigs[r] EXCEPT
                 !.targets = {t \in @ : t.own \/ t.coin # gone.coin}]), whole)
    BY <1>11 DEF RigUncoin
  <2>2. r \in Rigs /\ file.rigs[r] \in Rig
    BY <1>1, ConfiguredTyped
  <2>3. ASSUME NEW gone
        PROVE  [file.rigs[r] EXCEPT !.targets = {t \in @ : t.own \/ t.coin # gone.coin}]
                 \in Rig
    BY <2>2 DEF Rig
  <2> QED BY <2>1, <2>2, <2>3, <1>3
<1>12. CASE SetEnabled(whole)
  <2>1. PICK r \in Configured(file), enabled \in BOOLEAN :
          Save(Edited(file, r, [file.rigs[r] EXCEPT !.enabled = enabled]), whole)
    BY <1>12 DEF SetEnabled
  <2>2. r \in Rigs /\ file.rigs[r] \in Rig
    BY <1>1, ConfiguredTyped
  <2>3. [file.rigs[r] EXCEPT !.enabled = enabled] \in Rig
    BY <2>2 DEF Rig
  <2> QED BY <2>1, <2>2, <2>3, <1>3
<1>13. CASE RigThreads(whole)
  <2>1. PICK r \in Configured(file), pinned \in BOOLEAN :
          LET cfg == Edited(file, r, [file.rigs[r] EXCEPT !.pinned = pinned])
          IN Unseen(IF whole THEN {cfg} ELSE Prefixes(cfg))
    BY <1>13 DEF RigThreads, Unseen
  <2>2. r \in Rigs /\ file.rigs[r] \in Rig
    BY <1>1, ConfiguredTyped
  <2>3. [file.rigs[r] EXCEPT !.pinned = pinned] \in Rig
    BY <2>2 DEF Rig
  <2> QED BY <2>1, <2>2, <2>3, <1>3
<1>14. CASE RemoteCommand(whole)
  BY <1>14 DEF RemoteCommand, Unseen, OneEdit, RemoteEdit
<1> QED BY <1>5, <1>6, <1>7, <1>8, <1>9, <1>10, <1>11, <1>12, <1>13, <1>14 DEF Commands

\* Each request writes one edit of the daemon's copy.
LEMMA RequestIsOneEdit ==
  ASSUME TypeOK, NEW whole \in BOOLEAN, Requests(whole)
  PROVE  \E cfg \in Config : OneEdit(copy, cfg) /\ Mutate(cfg, whole)
<1>1. copy \in Config
  BY DEF TypeOK
<1> SUFFICES \E cfg : OneEdit(copy, cfg) /\ Mutate(cfg, whole)
  BY <1>1, OneEditTyped
<1>2. ASSUME NEW kind \in SUBSET Items, NEW cfg \in ItemEdits(copy, kind)
      PROVE  OneEdit(copy, cfg)
  BY <1>2, ItemEditsAreEdits DEF OneEdit
<1>3. ASSUME NEW r \in Rigs, NEW rig \in Rig \union {None}
      PROVE  OneEdit(copy, Edited(copy, r, rig))
  BY <1>3 DEF OneEdit, RigEdit
<1>4. Wallets \subseteq Items /\ Endpoints \subseteq Items /\ Nodes \subseteq Items
  BY DEF Items
<1>5. CASE WalletRequest(whole)
  BY <1>2, <1>4, <1>5 DEF WalletRequest
<1>6. CASE EndpointRequest(whole)
  BY <1>2, <1>4, <1>6 DEF EndpointRequest
<1>7. CASE NodeRequest(whole)
  BY <1>2, <1>4, <1>7 DEF NodeRequest
<1>8. CASE AddRig(whole)
  <2>1. PICK r \in Rigs \ Configured(copy), coin \in Coins, ref \in References,
             user \in BOOLEAN, known \in BOOLEAN, wallet \in Wallets \union {None} :
          Mutate(Edited(copy, r, NewRig(coin, ref, user, wallet, known, TRUE)), whole)
    BY <1>8 DEF AddRig
  <2>2. NewRig(coin, ref, user, wallet, known, TRUE) \in Rig
    BY NewRigTyped
  <2> QED BY <2>1, <2>2, <1>3
<1>9. CASE AddRigCoin(whole)
  <2>1. PICK r \in Configured(copy), coin \in Coins, ref \in References,
             wallet \in Wallets \union {None} :
          Mutate(Edited(copy, r,
                   With(copy.rigs[r],
                     NewTarget(coin, FALSE, ref, FALSE, wallet, copy.rigs[r].known))), whole)
    BY <1>9, Zenon DEF AddRigCoin
  <2>2. r \in Rigs /\ copy.rigs[r] \in Rig
    BY <1>1, ConfiguredTyped
  <2>3. copy.rigs[r].known \in BOOLEAN
    BY <2>2 DEF Rig
  <2>4. NewTarget(coin, FALSE, ref, FALSE, wallet, copy.rigs[r].known) \in Target
    BY <2>3, NewTargetTyped
  <2>5. With(copy.rigs[r],
             NewTarget(coin, FALSE, ref, FALSE, wallet, copy.rigs[r].known)) \in Rig
    BY <2>2, <2>4, WithTyped
  <2> QED BY <2>1, <2>2, <2>5, <1>3
<1>10. CASE RemoveRig(whole)
  BY <1>10, <1>3, <1>1, ConfiguredTyped DEF RemoveRig
<1>11. CASE SetRigEnabled(whole)
  <2>1. PICK r \in Configured(copy), enabled \in BOOLEAN :
          Mutate(Edited(copy, r, [copy.rigs[r] EXCEPT !.enabled = enabled]), whole)
    BY <1>11 DEF SetRigEnabled
  <2>2. r \in Rigs /\ copy.rigs[r] \in Rig
    BY <1>1, ConfiguredTyped
  <2>3. [copy.rigs[r] EXCEPT !.enabled = enabled] \in Rig
    BY <2>2 DEF Rig
  <2> QED BY <2>1, <2>2, <2>3, <1>3
<1> QED BY <1>5, <1>6, <1>7, <1>8, <1>9, <1>10, <1>11 DEF Requests

-----------------------------------------------------------------------------
(* The invariants.                                                         *)

\* Contents nobody was told of: the daemon goes on with its copy.
LEMMA UnseenKeeps ==
  ASSUME IInv, NEW contents \in SUBSET (Config \union {Garbled}), Unseen(contents)
  PROVE  IInv'
<1>1. file' \in Config \union {Garbled}
  BY DEF Unseen
<1>2. up' = up /\ copy' = copy /\ broken' = broken
  BY DEF Unseen, Untold
<1>3. untold' \in 0..MaxUntold /\ (up => untold' # 0)
  BY BoundAssumption DEF Unseen, Untold, IInv, TypeOK
<1> QED BY <1>1, <1>2, <1>3 DEF IInv, TypeOK, OnlySoundIsApplied, SeenIsApplied

\* A reload of what the file holds by then.
LEMMA ReloadedKeeps ==
  ASSUME IInv, NEW contents \in Config \union {Garbled}, file' = contents,
         Reloaded(contents)
  PROVE  IInv'
<1>1. up' = up /\ untold' = 0 /\ up \in BOOLEAN
  BY DEF Reloaded, IInv, TypeOK
<1>2. 0 \in 0..MaxUntold
  BY BoundAssumption
<1>3. CASE up /\ Loads(contents)
  <2>1. copy' = contents /\ broken' = FALSE
    BY <1>3 DEF Reloaded, Applied
  <2>2. contents \in Config /\ Sound(contents)
    BY <1>3 DEF Loads
  <2> QED BY <1>1, <1>2, <2>1, <2>2 DEF IInv, TypeOK, OnlySoundIsApplied, SeenIsApplied
<1>4. CASE ~ (up /\ Loads(contents))
  <2>1. copy' = copy /\ broken' = broken
    BY <1>4 DEF Reloaded
  <2>2. ~ (up' /\ Loads(file'))
    BY <1>1, <1>4
  <2> QED BY <1>1, <1>2, <2>1, <2>2 DEF IInv, TypeOK, OnlySoundIsApplied, SeenIsApplied
<1> QED BY <1>3, <1>4

LEMMA CutShortKeeps ==
  ASSUME IInv, NEW cfg \in Config, CutShort(cfg)
  PROVE  IInv'
  BY PrefixesTyped, UnseenKeeps DEF CutShort, Unseen

LEMMA SaveKeeps ==
  ASSUME IInv, NEW cfg \in Config, NEW whole \in BOOLEAN, Save(cfg, whole)
  PROVE  IInv'
<1>1. CASE whole /\ Reloaded(cfg)
  BY <1>1, ReloadedKeeps DEF Save
<1>2. CASE whole /\ Untold
  <2>1. Unseen({cfg})
    BY <1>2 DEF Save, Unseen
  <2> QED BY <2>1, UnseenKeeps
<1>3. CASE ~ whole
  BY <1>3, CutShortKeeps DEF Save
<1> QED BY <1>1, <1>2, <1>3 DEF Save

LEMMA MutateKeeps ==
  ASSUME IInv, NEW cfg \in Config, NEW whole \in BOOLEAN, Mutate(cfg, whole)
  PROVE  IInv'
<1>1. CASE whole
  <2>1. /\ file' = cfg /\ copy' = cfg /\ broken' = FALSE /\ untold' = 0 /\ up' = up
        /\ Sound(cfg)
    BY <1>1 DEF Mutate, Applied
  <2>2. 0 \in 0..MaxUntold
    BY BoundAssumption
  <2> QED BY <2>1, <2>2 DEF IInv, TypeOK, OnlySoundIsApplied, SeenIsApplied
<1>2. CASE ~ whole
  BY <1>2, CutShortKeeps DEF Mutate
<1> QED BY <1>1, <1>2

LEMMA InitIInv == Init => IInv
<1> SUFFICES ASSUME Init
             PROVE  IInv
  OBVIOUS
<1>1. TypeOK
  <2>1. 0 \in 0..MaxUntold
    BY BoundAssumption
  <2> QED BY <2>1, DefaultSound DEF Init, TypeOK
<1>2. OnlySoundIsApplied /\ SeenIsApplied
  BY DEF Init, OnlySoundIsApplied, SeenIsApplied
<1> QED BY <1>1, <1>2 DEF IInv

LEMMA NextIInv == IInv /\ [Next]_vars => IInv'
<1> SUFFICES ASSUME IInv, [Next]_vars
             PROVE  IInv'
  OBVIOUS
<1>1. ASSUME NEW whole \in BOOLEAN, Commands(whole)
      PROVE  IInv'
  <2>1. CASE Loads(file)
    <3>1. PICK cfg \in Config :
            Save(cfg, whole) \/ Unseen(IF whole THEN {cfg} ELSE Prefixes(cfg))
      BY <1>1, <2>1, CommandIsOneEdit DEF IInv
    <3>2. (IF whole THEN {cfg} ELSE Prefixes(cfg)) \in SUBSET (Config \union {Garbled})
      BY PrefixesTyped
    <3> QED BY <1>1, <3>1, <3>2, SaveKeeps, UnseenKeeps
  <2>2. CASE ~ Loads(file)
    BY <1>1, <2>2 DEF Commands, WalletCommand, EndpointCommand, NodeCommand, RigAdd, RigRm,
                      RigCoin, RigUncoin, SetEnabled, RigThreads, RemoteCommand
  <2> QED BY <2>1, <2>2
<1>2. ASSUME NEW whole \in BOOLEAN, ConfigInit(whole)
      PROVE  IInv'
  <2>1. Unseen({Default, Garbled})
    BY <1>2 DEF ConfigInit, Unseen
  <2> QED BY <2>1, DefaultSound, UnseenKeeps
<1>3. ASSUME NEW whole \in BOOLEAN, Requests(whole)
      PROVE  IInv'
  BY <1>3, RequestIsOneEdit, MutateKeeps DEF IInv
<1>4. CASE Reload
  <2>1. file \in Config \union {Garbled}
    BY DEF IInv, TypeOK
  <2> QED BY <1>4, <2>1, ReloadedKeeps DEF Reload
<1>5. CASE Start
  <2>1. 0 \in 0..MaxUntold
    BY BoundAssumption
  <2>2. CASE Loads(file)
    BY <1>5, <2>1, <2>2
       DEF Start, Loads, IInv, TypeOK, OnlySoundIsApplied, SeenIsApplied
  <2>3. CASE ~ Loads(file)
    BY <1>5, <2>1, <2>3, DefaultSound
       DEF Start, IInv, TypeOK, OnlySoundIsApplied, SeenIsApplied
  <2> QED BY <2>2, <2>3
<1>6. CASE Stop
  <2>1. 0 \in 0..MaxUntold
    BY BoundAssumption
  <2> QED BY <1>6, <2>1, DefaultSound
             DEF Stop, IInv, TypeOK, OnlySoundIsApplied, SeenIsApplied
<1>7. CASE EditByHand
  <2>1. Unseen(HandWritten \union {Garbled})
    BY <1>7 DEF EditByHand, Unseen
  <2> QED BY <2>1, HandWrittenAssumption, UnseenKeeps
<1>8. CASE UNCHANGED vars
  BY <1>8 DEF vars, IInv, TypeOK, OnlySoundIsApplied, SeenIsApplied
<1> QED BY <1>1, <1>2, <1>3, <1>4, <1>5, <1>6, <1>7, <1>8 DEF Next

LEMMA AlwaysIInv == Spec => []IInv
  BY InitIInv, NextIInv, PTL DEF Spec

\* The store's state is well formed: whatever is saved, cut short or applied is a
\* configuration, or a file that does not parse.
THEOREM TypeCorrect == Spec => []TypeOK
  BY AlwaysIInv, PTL DEF IInv

\* No edit, reload or start of the daemon (mutate, reload and run, src/src/daemon.rs)
\* brings a configuration into use that validate() refuses.
THEOREM OnlySoundConfigsApplied == Spec => []OnlySoundIsApplied
  BY AlwaysIInv, PTL DEF IInv

\* A daemon told of every change (nudge_daemon, mutate) works with what the file says.
THEOREM SeenConfigsApplied == Spec => []SeenIsApplied
  BY AlwaysIInv, PTL DEF IInv

-----------------------------------------------------------------------------
(* What edits may do to the file.                                          *)

\* A set within a single element has one at most.
LEMMA OneAtMost ==
  ASSUME NEW S, NEW x, S \subseteq {x}
  PROVE  Cardinality(S) \in 0..1
<1>1. CASE S = {}
  <2>1. Cardinality(S) = 0
    BY <1>1, FS_EmptySet
  <2> QED BY <2>1
<1>2. CASE S = {x}
  <2>1. Cardinality(S) = 1
    BY <1>2, FS_Singleton
  <2> QED BY <2>1
<1> QED BY <1>1, <1>2

\* One edit alters one entry.
LEMMA OneEditApart ==
  ASSUME NEW a \in Config, NEW b, OneEdit(a, b)
  PROVE  Apart(a, b) <= 1
<1> DEFINE items == (a.items \ b.items) \union (b.items \ a.items)
           rigs == {r \in Rigs : a.rigs[r] # b.rigs[r]}
<1>1. Cardinality({}) = 0
  BY FS_EmptySet
<1>2. CASE ItemEdit(a, b)
  <2>1. PICK x \in Items : b = [a EXCEPT !.items = @ \union {x}]
                          \/ b = [a EXCEPT !.items = @ \ {x}]
    BY <1>2 DEF ItemEdit
  <2>2. b.rigs = a.rigs /\ b.remote = a.remote /\ items \subseteq {x}
    BY <2>1 DEF Config
  <2>3. rigs = {}
    BY <2>2
  <2> QED BY <1>1, <2>2, <2>3, OneAtMost DEF Apart
<1>3. CASE RigEdit(a, b)
  <2>1. PICK r \in Rigs, rig \in Rig \union {None} : b = Edited(a, r, rig)
    BY <1>3 DEF RigEdit
  <2>2. /\ b.items = a.items /\ b.remote = a.remote
        /\ b.rigs = [a.rigs EXCEPT ![r] = rig]
        /\ a.rigs \in [Rigs -> Rig \union {None}]
    BY <2>1 DEF Edited, Config
  <2>3. items = {} /\ rigs \subseteq {r}
    BY <2>2
  <2> QED BY <1>1, <2>2, <2>3, OneAtMost DEF Apart
<1>4. CASE RemoteEdit(a, b)
  <2>1. b.items = a.items /\ b.rigs = a.rigs
    BY <1>4 DEF RemoteEdit, Config
  <2>2. items = {} /\ rigs = {}
    BY <2>1
  <2> QED BY <1>1, <2>2 DEF Apart
<1> QED BY <1>2, <1>3, <1>4 DEF OneEdit

\* A command that is not cut short leaves the edit in the file.
LEMMA SavedWhole ==
  ASSUME NEW cfg, \/ Save(cfg, TRUE)
                  \/ Unseen(IF TRUE THEN {cfg} ELSE Prefixes(cfg))
  PROVE  file' = cfg
  BY DEF Save, Unseen

\* As long as the daemon was told of every change, neither a command nor a request loses
\* an entry that another one wrote: it alters one entry of what the file says.
THEOREM NoEditIsLost == Spec => EditsLoseNothing
<1> DEFINE A == untold = 0 /\ Loads(file) /\ (Commands(TRUE) \/ Requests(TRUE))
                  => Apart(file, file') <= 1
<1>1. IInv /\ [Next]_vars => [A]_vars
  <2> SUFFICES ASSUME IInv, untold = 0, Loads(file), Commands(TRUE) \/ Requests(TRUE)
               PROVE  Apart(file, file') <= 1
    OBVIOUS
  <2>1. file \in Config
    BY DEF IInv, TypeOK, Loads
  <2>2. CASE Commands(TRUE)
    <3>1. PICK cfg \in Config :
            /\ OneEdit(file, cfg)
            /\ \/ Save(cfg, TRUE)
               \/ Unseen(IF TRUE THEN {cfg} ELSE Prefixes(cfg))
      BY <2>2, CommandIsOneEdit DEF IInv
    <3> QED BY <2>1, <3>1, SavedWhole, OneEditApart
  <2>3. CASE Requests(TRUE)
    <3>1. PICK cfg \in Config : OneEdit(copy, cfg) /\ Mutate(cfg, TRUE)
      BY <2>3, RequestIsOneEdit DEF IInv
    <3>2. file' = cfg /\ up
      BY <3>1 DEF Mutate
    <3>3. copy = file
      BY <3>2 DEF IInv, SeenIsApplied
    <3> QED BY <2>1, <3>1, <3>2, <3>3, OneEditApart
  <2> QED BY <2>2, <2>3
<1> QED BY <1>1, AlwaysIInv, PTL DEF Spec, EditsLoseNothing

-----------------------------------------------------------------------------
(* What commands leave behind loads again.                                 *)

\* What WellFormed asks of a rig.
Fit(rig) ==
  /\ rig.known
  /\ \E t \in rig.targets : t.own
  /\ \A t \in rig.targets : t.known

LEMMA WellFormedFit ==
  ASSUME NEW cfg
  PROVE  WellFormed(cfg) <=> \A r \in Configured(cfg) : Fit(cfg.rigs[r])
  BY DEF WellFormed, Fit

LEMMA WellFormedLoads ==
  ASSUME NEW cfg \in Config, WellFormed(cfg)
  PROVE  Loads(cfg)
<1>1. cfg # Garbled
  BY GarbledAssumption
<1>2. ASSUME NEW r \in Rigs, cfg.rigs[r] # None
      PROVE  cfg.rigs[r].targets # {} /\ \A t \in cfg.rigs[r].targets : t.known
  BY <1>2 DEF WellFormed, Configured
<1> QED BY <1>1, <1>2 DEF Loads, Sound

\* An edit that leaves the rigs alone, and one that puts a fit rig in, or none.
LEMMA SameRigsWellFormed ==
  ASSUME NEW cfg, WellFormed(cfg), NEW new, new.rigs = cfg.rigs
  PROVE  WellFormed(new)
  BY DEF WellFormed, Configured

LEMMA EditedWellFormed ==
  ASSUME NEW cfg \in Config, WellFormed(cfg), NEW r \in Rigs, NEW rig,
         rig = None \/ Fit(rig)
  PROVE  WellFormed(Edited(cfg, r, rig))
<1>1. cfg.rigs \in [Rigs -> Rig \union {None}]
  BY DEF Config
<1>2. Edited(cfg, r, rig).rigs = [cfg.rigs EXCEPT ![r] = rig]
  BY DEF Edited, Config
<1>3. ASSUME NEW q \in Configured(Edited(cfg, r, rig))
      PROVE  Fit(Edited(cfg, r, rig).rigs[q])
  <2>1. CASE q = r
    BY <1>1, <1>2, <1>3, <2>1 DEF Configured
  <2>2. CASE q # r
    <3>1. Edited(cfg, r, rig).rigs[q] = cfg.rigs[q] /\ q \in Configured(cfg)
      BY <1>1, <1>2, <1>3, <2>2 DEF Configured
    <3> QED BY <3>1, WellFormedFit
  <2> QED BY <2>1, <2>2
<1> QED BY <1>3, WellFormedFit

\* A rig that gains a coin whose algorithm is known, loses one that is not its own, or
\* changes in another respect.
LEMMA WithFit ==
  ASSUME NEW rig \in Rig, Fit(rig), NEW target, target.known
  PROVE  Fit(With(rig, target))
<1>1. /\ With(rig, target).targets = rig.targets \union {target}
      /\ With(rig, target).known = rig.known
  BY DEF With, Rig
<1> QED BY <1>1 DEF Fit

LEMMA WithoutFit ==
  ASSUME NEW rig \in Rig, Fit(rig), NEW gone
  PROVE  Fit([rig EXCEPT !.targets = {t \in @ : t.own \/ t.coin # gone.coin}])
<1> DEFINE new == [rig EXCEPT !.targets = {t \in @ : t.own \/ t.coin # gone.coin}]
<1>1. new.targets = {t \in rig.targets : t.own \/ t.coin # gone.coin}
  BY DEF Rig
<1>2. new.known = rig.known
  BY DEF Rig
<1>3. PICK t \in rig.targets : t.own
  BY DEF Fit
<1>4. t \in new.targets
  BY <1>1, <1>3
<1> QED BY <1>1, <1>2, <1>3, <1>4 DEF Fit

LEMMA SameTargetsFit ==
  ASSUME NEW rig, Fit(rig), NEW new, new.targets = rig.targets, new.known = rig.known
  PROVE  Fit(new)
  BY DEF Fit

LEMMA NewRigFit ==
  ASSUME NEW coin, NEW ref, NEW user \in BOOLEAN, NEW wallet, NEW enabled \in BOOLEAN
  PROVE  Fit(NewRig(coin, ref, user, wallet, TRUE, enabled))
<1> DEFINE target == NewTarget(coin, TRUE, ref, user, None, TRUE)
           rig == NewRig(coin, ref, user, wallet, TRUE, enabled)
<1>1. target.own = TRUE /\ target.known = TRUE
  BY DEF NewTarget
<1>2. rig.targets = {target} /\ rig.known = TRUE
  BY DEF NewRig
<1>3. \A new : new.targets = {target} /\ new.known = TRUE => Fit(new)
  BY <1>1 DEF Fit
<1> QED BY <1>2, <1>3

\* No command leaves a rig that is not fit.
LEMMA CommandKeepsForm ==
  ASSUME TypeOK, Loads(file), WellFormed(file), Commands(TRUE)
  PROVE  WellFormed(file')
<1>1. file \in Config
  BY DEF TypeOK, Loads
<1>2. ASSUME NEW cfg, Save(cfg, TRUE)
      PROVE  file' = cfg
  BY <1>2 DEF Save
<1>3. ASSUME NEW r \in Configured(file)
      PROVE  r \in Rigs /\ file.rigs[r] \in Rig /\ Fit(file.rigs[r])
  BY <1>1, <1>3, ConfiguredTyped, WellFormedFit
<1>4. ASSUME NEW kind, NEW cfg \in ItemEdits(file, kind)
      PROVE  WellFormed(cfg)
  <2>1. cfg.rigs = file.rigs
    BY <1>1, <1>4 DEF ItemEdits, Config
  <2> QED BY <2>1, SameRigsWellFormed
<1>5. CASE WalletCommand(TRUE)
  BY <1>2, <1>4, <1>5 DEF WalletCommand
<1>6. CASE EndpointCommand(TRUE)
  BY <1>2, <1>4, <1>6 DEF EndpointCommand
<1>7. CASE NodeCommand(TRUE)
  BY <1>2, <1>4, <1>7 DEF NodeCommand
<1>8. CASE RigAdd(TRUE)
  <2>1. PICK r \in Rigs \ Configured(file), coin \in Coins, ref \in References,
             user \in BOOLEAN, enabled \in BOOLEAN, wallet \in Payees(file) :
          Save(Edited(file, r, NewRig(coin, ref, user, wallet, TRUE, enabled)), TRUE)
    BY <1>8 DEF RigAdd
  <2>2. file' = Edited(file, r, NewRig(coin, ref, user, wallet, TRUE, enabled))
    BY <1>2, <2>1
  <2> QED BY <1>1, <2>2, NewRigFit, EditedWellFormed
<1>9. CASE RigRm(TRUE)
  <2>1. PICK r \in Configured(file) : file' = Edited(file, r, None)
    BY <1>2, <1>9 DEF RigRm
  <2> QED BY <1>1, <1>3, <2>1, EditedWellFormed
<1>10. CASE RigCoin(TRUE)
  <2>1. PICK r \in Configured(file), coin \in Coins, ref \in References,
             user \in BOOLEAN, wallet \in Payees(file) :
          \E known \in {TRUE, file.rigs[r].known} :
            Save(Edited(file, r, With(file.rigs[r],
                   NewTarget(coin, FALSE, ref, user, wallet, known))), TRUE)
    BY <1>10 DEF RigCoin
  <2>2. PICK known \in {TRUE, file.rigs[r].known} :
          file' = Edited(file, r, With(file.rigs[r],
                    NewTarget(coin, FALSE, ref, user, wallet, known)))
    BY <1>2, <2>1
  <2>3. NewTarget(coin, FALSE, ref, user, wallet, known).known
    <3>1. file.rigs[r].known = TRUE
      BY <1>3 DEF Fit, Rig
    <3>2. known = TRUE
      BY <3>1
    <3> QED BY <3>2 DEF NewTarget
  <2> QED BY <1>1, <1>3, <2>2, <2>3, WithFit, EditedWellFormed
<1>11. CASE RigUncoin(TRUE)
  <2>1. PICK r \in Configured(file) : \E gone \in file.rigs[r].targets :
          Save(Edited(file, r, [file.rigs[r] EXCEPT
                 !.targets = {t \in @ : t.own \/ t.coin # gone.coin}]), TRUE)
    BY <1>11 DEF RigUncoin
  <2>2. PICK gone :
          file' = Edited(file, r, [file.rigs[r] EXCEPT
                    !.targets = {t \in @ : t.own \/ t.coin # gone.coin}])
    BY <1>2, <2>1
  <2> QED BY <1>1, <1>3, <2>2, WithoutFit, EditedWellFormed
<1>12. CASE SetEnabled(TRUE)
  <2>1. PICK r \in Configured(file), enabled \in BOOLEAN :
          file' = Edited(file, r, [file.rigs[r] EXCEPT !.enabled = enabled])
    BY <1>2, <1>12 DEF SetEnabled
  <2>2. Fit([file.rigs[r] EXCEPT !.enabled = enabled])
    BY <1>3, SameTargetsFit DEF Rig
  <2> QED BY <1>1, <1>3, <2>1, <2>2, EditedWellFormed
<1>13. CASE RigThreads(TRUE)
  <2>1. PICK r \in Configured(file), pinned \in BOOLEAN :
          file' = Edited(file, r, [file.rigs[r] EXCEPT !.pinned = pinned])
    BY <1>13 DEF RigThreads
  <2>2. Fit([file.rigs[r] EXCEPT !.pinned = pinned])
    BY <1>3, SameTargetsFit DEF Rig
  <2> QED BY <1>1, <1>3, <2>1, <2>2, EditedWellFormed
<1>14. CASE RemoteCommand(TRUE)
  <2>1. file'.rigs = file.rigs
    BY <1>1, <1>14 DEF RemoteCommand, Config
  <2> QED BY <2>1, SameRigsWellFormed
<1> QED BY <1>5, <1>6, <1>7, <1>8, <1>9, <1>10, <1>11, <1>12, <1>13, <1>14 DEF Commands

\* From a file whose rigs have a url of their own and algorithms that exist, no command of
\* src/src/cli.rs leaves a file which the next Config::load() refuses.
THEOREM CommandsKeepLoading == Spec => KeepsLoading
<1> DEFINE A == Loads(file) /\ WellFormed(file) /\ Commands(TRUE)
                  => Loads(file') /\ WellFormed(file')
<1>1. IInv /\ [Next]_vars => [A]_vars
  <2> SUFFICES ASSUME IInv, Loads(file), WellFormed(file), Commands(TRUE)
               PROVE  Loads(file') /\ WellFormed(file')
    OBVIOUS
  <2>1. PICK cfg \in Config :
          \/ Save(cfg, TRUE)
          \/ Unseen(IF TRUE THEN {cfg} ELSE Prefixes(cfg))
    BY CommandIsOneEdit DEF IInv
  <2>2. file' \in Config
    BY <2>1, SavedWhole
  <2>3. WellFormed(file')
    BY CommandKeepsForm DEF IInv
  <2> QED BY <2>2, <2>3, WellFormedLoads
<1> QED BY <1>1, AlwaysIInv, PTL DEF Spec, KeepsLoading
=============================================================================
