----------------------------- MODULE Dashboard -----------------------------
(***************************************************************************)
(* One dashboard over many machines (src/src/tui): the lists it merges     *)
(* from its own machine, the hub, and the hub's peers, the rows selected   *)
(* in them, and what its keys, confirmations and forms do to which machine *)
(* (src/src/daemon.rs, serve() and handle()).  Other clients change the    *)
(* lists at any time.                                                      *)
(*                                                                         *)
(* The dashboard draws before it reads a key, so a key finds the snapshot  *)
(* the user has seen.  A list that is not there yet is like an empty one.  *)
(*                                                                         *)
(* The specification is DashSpec, so that one module can extend this one   *)
(* and PeerNode.                                                           *)
(***************************************************************************)
EXTENDS Integers, Sequences, FiniteSets

CONSTANTS
  Machines,  \* the hub and its peers, in the order of their rows
  Label,     \* what a machine is called at the hub
  Rows,      \* the rows that rigs, endpoints and wallets may have, in order
  Group,     \* the rig that a row of the rigs belongs to
  Tabs,      \* the views
  Nil

Machine == {Machines[i] : i \in DOMAIN Machines}
Hub == Machines[1]
Peers == Machine \ {Hub}
Stocked == {"rigs", "endpoints", "wallets"}
Lists == Stocked \union {"nodes"}
Possible(l) == {Rows[l][i] : i \in DOMAIN Rows[l]}

ASSUME MachinesAssumption == Machines \in Seq(Machine) \ {<<>>} /\ Nil \notin Machine
ASSUME LabelAssumption == DOMAIN Label = Machine /\ Nil \notin {Label[m] : m \in Machine}
ASSUME PeersAssumption ==  \* validate() and AddNode; the hub is not compared with them
  \A m, n \in Peers : Label[m] = Label[n] => m = n
ASSUME RowsAssumption ==
  /\ DOMAIN Rows = Stocked
  /\ \A l \in Stocked : /\ Rows[l] \in Seq(Possible(l))
                         /\ \A row \in Possible(l) :
                              DOMAIN row = {"at", "name"} /\ row.at \in Machine
ASSUME GroupAssumption == {row.name : row \in Possible("rigs")} \subseteq DOMAIN Group
ASSUME TabsAssumption ==
  /\ Tabs \subseteq {"dashboard", "rigs", "nodes", "hardware", "endpoints", "wallets", "logs"}
  /\ "dashboard" \in Tabs

VARIABLES
  stock,      \* what rigs, endpoints and wallets the machines have
  linked,     \* the peers that the hub is configured with
  snapshot,   \* the rows the dashboard has last been given
  selected,   \* the index, from 0, of the selected row of each list
  tab,        \* the view
  dialog,     \* what takes the keys before the view does
  frozen,     \* the display is not refreshed
  done        \* history: what the last step has done by request, and where

dashVars == <<stock, linked, snapshot, selected, tab, dialog, frozen, done>>
viewVars == <<snapshot, selected, tab, frozen>>

NoDialog == [kind |-> "none"]

DashInit ==
  /\ stock = [l \in Stocked |-> Possible(l)]
  /\ linked = Peers
  /\ snapshot = [l \in Lists |-> <<>>]
  /\ selected = [l \in Lists |-> 0]
  /\ tab = "dashboard"
  /\ dialog = NoDialog
  /\ frozen = FALSE
  /\ done = Nil

-----------------------------------------------------------------------------
(* Snapshots.                                                              *)

NodeRow(m) == [at |-> m, name |-> Label[m]]
Nodes == [i \in DOMAIN Machines |-> NodeRow(Machines[i])]

\* The rows of a list that are in S, in their order.
Filtered(list, S) ==
  LET at == {i \in DOMAIN list : list[i] \in S}
      Rank(i) == Cardinality({j \in at : j <= i})
  IN  [k \in 1..Cardinality(at) |-> list[CHOOSE i \in at : Rank(i) = k]]

\* Daemon::snapshot(): the hub's rows, then those of each peer it has heard of, online or
\* not.  (They are as old as the last poll; to the dashboard the whole snapshot is old.)
Merged(l, heard) ==
  IF l = "nodes"
  THEN Filtered(Nodes, {NodeRow(m) : m \in linked \union {Hub}})
  ELSE Filtered(Rows[l], {row \in stock[l] : row.at \in heard \union {Hub}})

\* Mutant of Clamped: the list has grown shorter by one row at most.
ClampedByOne(index, len) == IF index = len /\ len > 0 THEN index - 1 ELSE index

Clamped(index, len) ==
  IF len = 0 THEN 0 ELSE IF index >= len THEN len - 1 ELSE index

\* refresh().  If it fails, what was seen last stays.
Refresh ==
  /\ ~ frozen
  /\ \E heard \in SUBSET linked : snapshot' = [l \in Lists |-> Merged(l, heard)]
  /\ selected' = [l \in Lists |-> Clamped(selected[l], Len(snapshot'[l]))]
  /\ done' = Nil
  /\ UNCHANGED <<stock, linked, tab, dialog, frozen>>

\* Somebody else adds or removes something, or a peer.
OthersEdit ==
  /\ \/ \E l \in Stocked : \E row \in Possible(l) :
          /\ stock' = [stock EXCEPT ![l] = IF row \in @ THEN @ \ {row} ELSE @ \union {row}]
          /\ UNCHANGED linked
     \/ \E m \in Peers :
          /\ linked' = IF m \in linked THEN linked \ {m} ELSE linked \union {m}
          /\ UNCHANGED stock
  /\ done' = Nil
  /\ UNCHANGED <<viewVars, dialog>>

-----------------------------------------------------------------------------
(* Selections.                                                             *)

\* cursor(): what the keys move in each view.
ListOf(view) == IF view \in {"endpoints", "wallets", "nodes"} THEN view ELSE "rigs"

Listed == IF tab = "hardware" THEN 0 ELSE Len(snapshot[ListOf(tab)])

\* The log has no selection: there the keys only scroll.
Select(index) ==
  /\ tab # "logs"
  /\ selected' = [selected EXCEPT ![ListOf(tab)] = index]
  /\ done' = Nil
  /\ UNCHANGED <<stock, linked, snapshot, tab, dialog, frozen>>

\* Arrows and pages; Home; End.
MoveSelection ==
  \E delta \in {-10, -1, 1, 10} :
    LET next == selected[ListOf(tab)] + delta IN
      /\ Listed > 0
      /\ Select(IF next < 0 THEN 0 ELSE IF next >= Listed THEN Listed - 1 ELSE next)
Home == Select(0)
End == Select(IF Listed = 0 THEN 0 ELSE Listed - 1)

\* The selected row, if there is one.
Selection(l) ==
  IF selected[l] < Len(snapshot[l]) THEN {snapshot[l][selected[l] + 1]} ELSE {}

-----------------------------------------------------------------------------
(* Requests.                                                               *)

\* What to do, where (a label, or Nil for the hub itself), and to whom by name;
\* row is history: whom the key was about.
Request(op, l, to, name, row) ==
  [op |-> op, list |-> l, to |-> to, name |-> name, row |-> row]

\* route(): to the machine that owns the row.
Route(row) == Label[row.at]

\* serve(): the hub itself, which has a second name, or the peer of that name.
Reached(to) ==
  IF to \in {Nil, "local", Label[Hub]} THEN {Hub} ELSE {m \in linked : Label[m] = to}

\* A rig has several rows if it mines several coins.
Named(q, m) ==
  {row \in stock[q.list] :
     /\ row.at = m
     /\ \/ q.name = row.name
        \/ q.list = "rigs" /\ q.name = Group[row.name]}

\* What handle() does on machine m; it refuses what is not there, or there already.
Changes(q, m) ==
  \/ /\ q.op \in {"start", "stop", "threads", "enable", "check"} /\ q.list \in Stocked
     /\ Named(q, m) # {}
     /\ UNCHANGED <<stock, linked>>
  \/ /\ q.op = "remove" /\ q.list \in Stocked
     /\ Named(q, m) # {}
     /\ stock' = [stock EXCEPT ![q.list] = @ \ Named(q, m)]
     /\ UNCHANGED linked
  \/ /\ q.op = "add" /\ q.list \in Stocked
     /\ Named(q, m) = {}
     /\ stock' = [stock EXCEPT ![q.list] = @ \union {[at |-> m, name |-> q.name]}]
     /\ UNCHANGED linked
  \/ /\ q.op = "coin"
     /\ Named(q, m) # {}
     /\ \E row \in Possible("rigs") \ stock.rigs :
          /\ row.at = m /\ Group[row.name] = q.name
          /\ stock' = [stock EXCEPT !.rigs = @ \union {row}]
     /\ UNCHANGED linked
  \/ /\ q.list = "nodes"
     /\ \E peer \in Peers :
          /\ Label[peer] = q.name
          /\ \/ q.op = "remove" /\ peer \in linked /\ linked' = linked \ {peer}
             \/ q.op = "add" /\ peer \notin linked /\ linked' = linked \union {peer}
             \/ q.op = "check" /\ peer \in linked /\ UNCHANGED linked
     /\ UNCHANGED stock
  \/ /\ q.op \in {"startall", "stopall", "reload", "shutdown"}
     /\ UNCHANGED <<stock, linked>>

\* request(): what was asked for is done or is not.
Does(q) ==
  \E m \in Reached(q.to) :
    /\ Changes(q, m)
    /\ done' = [op |-> q.op, list |-> q.list, at |-> m, name |-> q.name, row |-> q.row]

DoesNot == done' = Nil /\ UNCHANGED <<stock, linked>>

\* Who asked hears of it, or that there was an error, but it may have been done all the same.
Send(q) == Does(q) \/ DoesNot

-----------------------------------------------------------------------------
(* Keys of a view.                                                         *)

AtView == dialog = NoDialog

\* Keys that act at once: s x e + - on the selected rig, p on the endpoint, t on a peer.
ActOnRow ==
  /\ AtView
  /\ \/ \E row \in Selection("rigs") :
          \/ \E op \in {"start", "stop", "threads"} :
               Send(Request(op, "rigs", Route(row), row.name, row))
          \/ Send(Request("enable", "rigs", Route(row), Group[row.name], row))
     \/ \E row \in Selection("endpoints") :
          Send(Request("check", "endpoints", Route(row), row.name, row))
     \/ /\ tab = "nodes"
        /\ \E row \in Selection("nodes") :
             /\ row.at # Hub
             /\ Send(Request("check", "nodes", Nil, row.name, row))
  /\ UNCHANGED <<viewVars, dialog>>

\* S and r.
ActOnHub ==
  /\ AtView
  /\ \E op \in {"startall", "reload"} : Send(Request(op, "rigs", Nil, Nil, Nil))
  /\ UNCHANGED <<viewVars, dialog>>

Open(next) ==
  /\ AtView
  /\ dialog' = next
  /\ done' = Nil
  /\ UNCHANGED <<stock, linked, viewVars>>

Confirm(q) == [kind |-> "confirm", request |-> q]

\* d: delete_selected() asks first.
DeleteSelected ==
  LET l == ListOf(tab) IN
    \E row \in Selection(l) :
      /\ l = "nodes" => row.at # Hub
      /\ Open(Confirm(IF l = "rigs"
                      THEN Request("remove", l, Route(row), Group[row.name], row)
                      ELSE Request("remove", l, Nil, row.name, row)))

\* X and Q ask first.
AskHub ==
  \E op \in {"stopall", "shutdown"} : Open(Confirm(Request(op, "rigs", Nil, Nil, Nil)))

\* What is typed into its fields is free until it is sent.
Form(op, l, row) == [kind |-> "form", op |-> op, list |-> l, row |-> row]

\* a, and c, which adds a coin to the selected rig.
OpenForm ==
  \/ Open(Form("add", ListOf(tab), Nil))
  \/ /\ tab \in {"rigs", "dashboard"}
     /\ \E row \in Selection("rigs") : Open(Form("coin", "rigs", row))

Help == Open([kind |-> "help"])

ChangeView ==
  /\ AtView
  /\ \/ tab' \in Tabs \ {tab} /\ UNCHANGED frozen
     \/ frozen' = ~ frozen /\ UNCHANGED tab
  /\ done' = Nil
  /\ UNCHANGED <<stock, linked, snapshot, selected, dialog>>

-----------------------------------------------------------------------------
(* Keys of a dialog.                                                       *)

\* Mutant of Confirmed: the request is made anew for the row selected by then.
ConfirmedAnew(q) ==
  IF q.row = Nil \/ q.list # "rigs" THEN {q}
  ELSE {[q EXCEPT !.to = Route(row), !.name = Group[row.name]] : row \in Selection("rigs")}

Confirmed(q) == {q}

\* y.
Yes ==
  /\ dialog.kind = "confirm"
  /\ dialog' = NoDialog
  /\ \E q \in Confirmed(dialog.request) : Send(q)
  /\ UNCHANGED viewVars

\* Any other key, or Esc in a form.
Dismiss ==
  /\ ~ AtView
  /\ dialog' = NoDialog
  /\ done' = Nil
  /\ UNCHANGED <<stock, linked, viewVars>>

\* What the fields of a form may be built into.
Built(form) ==
  IF form.op = "coin" THEN {Request("coin", "rigs", Nil, Group[form.row.name], form.row)}
  ELSE {Request("add", form.list, Nil, name, Nil) :
          name \in IF form.list = "nodes" THEN {Label[m] : m \in Peers}
                   ELSE {row.name : row \in {r \in Possible(form.list) : r.at = Hub}}}

\* Enter.  The form stays up with the error until the daemon says yes.
Submit ==
  /\ dialog.kind = "form"
  /\ \E q \in Built(dialog) : \/ Does(q) /\ dialog' \in {NoDialog, dialog}
                              \/ DoesNot /\ UNCHANGED dialog
  /\ UNCHANGED viewVars

DashNext ==
  \/ Refresh \/ OthersEdit
  \/ AtView /\ (MoveSelection \/ Home \/ End)
  \/ ActOnRow \/ ActOnHub \/ DeleteSelected \/ AskHub \/ OpenForm \/ Help \/ ChangeView
  \/ Yes \/ Dismiss \/ Submit

DashSpec == DashInit /\ [][DashNext]_dashVars

-----------------------------------------------------------------------------
(* Properties.                                                             *)

\* Whatever the lists become, each selection is a row of its list if there are any
\* (clamp_selection): otherwise the keys would do nothing, or act on no row shown.
SelectionIsThere ==
  \A l \in Lists : selected[l] = 0 \/ selected[l] < Len(snapshot[l])

\* "s/x/+-/d all act on whichever machine owns the selected rig" (README 168), and so do e
\* and, for an endpoint, p: what has been done was done there, to the row that was selected
\* when the key was pressed, whatever has been added, removed or refreshed until it was
\* confirmed.  c, and d for what is not a rig, act on the hub whoever owns the row.
OwnersKeys ==
  {<<"rigs", op>> : op \in {"start", "stop", "threads", "enable", "remove"}}
    \union {<<"endpoints", "check">>}

KeysReachOwner ==
  done # Nil /\ <<done.list, done.op>> \in OwnersKeys =>
    /\ done.at = done.row.at
    /\ \/ done.name = done.row.name
       \/ done.list = "rigs" /\ done.name = Group[done.row.name]
=============================================================================
