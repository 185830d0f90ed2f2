--------------------------- MODULE SpotlightService ---------------------------
(***************************************************************************)
(* What the importer promises to Spotlight, one import at a time and with  *)
(* no memory of earlier imports: the attributes delivered for a file hold, *)
(* for every kind and in the order of the file, the names of the file's    *)
(* tags whose letter the table of its content type maps to that kind, and  *)
(* nothing that comes from another file; once delivered they stay as they  *)
(* are until the host releases them.                                       *)
(*                                                                         *)
(* Letters the table does not map are left open: the promise to drop them  *)
(* is not kept (see the run StaleKinds of the importer).                  *)
(***************************************************************************)
EXTENDS Integers, Sequences

CONSTANTS
  Imports,          \* import numbers
  Utis,             \* content types
  Kinds,            \* attributes
  Table(_)          \* the kind table of a content type

VARIABLE service    \* per import: its state, content type, tags, attributes

NotAsked == [status |-> "none", uti |-> "", tags |-> << >>,
             attrs |-> [k \in Kinds |-> << >>]]

Init == service = [m \in Imports |-> NotAsked]

Mapped(uti, t) == t.letter \in DOMAIN Table(uti)

\* What kind k shows of the tags ts of a file of type uti: tags of the file, in its
\* order and each once, with every name that is due and no other mapped one.
Lists(uti, ts, k, list) ==
  \E place \in [DOMAIN list -> DOMAIN ts] :
    /\ \A i \in DOMAIN list : list[i] = ts[place[i]]
    /\ \A i, j \in DOMAIN list : i < j => place[i] < place[j]
    /\ \A p \in DOMAIN ts : Mapped(uti, ts[p]) =>
         ((\E i \in DOMAIN list : place[i] = p)
            <=> ts[p].valid /\ Table(uti)[ts[p].letter] = k)

Contract(uti, ts, attrs) == \A k \in Kinds : Lists(uti, ts, k, attrs[k])

Ask(m) ==
  /\ service[m].status = "none"
  /\ service'[m].status = "asked"
  /\ service'[m].uti \in Utis
  /\ service' = [service EXCEPT ![m] = [NotAsked EXCEPT
                   !.status = "asked", !.uti = service'[m].uti]]

Deliver(m) ==
  /\ service[m].status = "asked"
  /\ service' = [service EXCEPT ![m] =
        [status |-> "delivered", uti |-> @.uti,
         tags |-> service'[m].tags, attrs |-> service'[m].attrs]]
  /\ Contract(service[m].uti, service'[m].tags, service'[m].attrs)

Release(m) ==
  /\ service[m].status = "delivered"
  /\ service' = [service EXCEPT ![m] =
        [NotAsked EXCEPT !.status = "released", !.uti = service[m].uti]]

Next == \E m \in Imports : Ask(m) \/ Deliver(m) \/ Release(m)

Spec == Init /\ [][Next]_service
===============================================================================
