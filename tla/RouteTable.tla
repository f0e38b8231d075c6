------------------------------ MODULE RouteTable ------------------------------
(***************************************************************************)
(* What the registry (internal/registry/routes.go) promises those who read   *)
(* its routes: a report of a watcher is taken in at once, however many steps *)
(* that takes and whatever else goes on meanwhile. It is the affair of the   *)
(* source that reports: what the source no longer names goes, what it names  *)
(* comes, and the routes of the other sources stay, but for those whose name *)
(* a service that ranks as high takes.                                      *)
(***************************************************************************)
EXTENDS Naturals

CONSTANTS
    Name,           \* subdomains
    Entry,          \* the services that may have one
    NoEntry,        \* the subdomain has no route
    Reporter,       \* the sources of services
    Nobody,         \* no report is being taken in
    SourceOf(_),    \* the source of an entry
    Rank(_)         \* the rank of a source

VARIABLES
    table,          \* subdomain -> its entry, as the readers know it
    reporting       \* the source whose report is being taken in

Init == /\ table = [n \in Name |-> NoEntry]
        /\ reporting = Nobody

\* What a report of src may do to the route of one name.
IsOf(e, src) == e # NoEntry /\ SourceOf(e) = src
Kept(n) == table'[n] = table[n]
Dropped(n, src) == IsOf(table[n], src) /\ table'[n] = NoEntry
Taken(n, src) == /\ IsOf(table'[n], src)
                 /\ table[n] # NoEntry => Rank(SourceOf(table[n])) <= Rank(src)

Report(src) ==
    /\ table' \in [Name -> Entry \cup {NoEntry}]
    /\ \A n \in Name : Kept(n) \/ Dropped(n, src) \/ Taken(n, src)

\* A report is begun; nobody sees any of it before it ends.
Begin(src) == /\ reporting = Nobody
              /\ reporting' = src
              /\ UNCHANGED table

End == /\ reporting \in Reporter
       /\ Report(reporting)
       /\ reporting' = Nobody

\* A report that is begun and ended in one step.
AtOnce(src) == /\ reporting = Nobody
               /\ Report(src)
               /\ UNCHANGED reporting

Next == End \/ \E src \in Reporter : Begin(src) \/ AtOnce(src)

Spec == Init /\ [][Next]_<<table, reporting>>
=============================================================================
