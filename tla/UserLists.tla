------------------------------ MODULE UserLists ------------------------------
(***************************************************************************)
(* The lists of users in the status bars of a document's views: the        *)
(* classes HorizontalUsersList and CollaborativeStatusBar of               *)
(* kte-plugin/ktecollaborativepluginview.cpp, composed with PluginView.    *)
(*                                                                         *)
(* A list is made anew from the session's table of users and the colours   *)
(* of the change tracker whenever it hears that one of them has changed:   *)
(* of users who come and go, of the state of those it knows, and of new    *)
(* colours.  What it does not hear of leaves it as it was.                 *)
(***************************************************************************)
EXTENDS PluginView, Naturals, FiniteSets

CONSTANTS
    Users,       \* those who take part in the session
    MaxListed,   \* of how many users the names are shown, 20 in the code
    MaxSet       \* bound: the settings that differ from the default

ASSUME UserListsAssumption == MaxListed \in Nat /\ MaxSet \in Nat

VARIABLES
    table,      \* the state of the users in the session's table
    wrote,      \* those the change tracker has a colour for
    list,       \* what the list of a view shows
    tabled,     \* the views whose lists have been given the table
    watched,    \* the users whose statusChanged() a list is connected to
    told,       \* the views whose lists hear of users added and removed
    offline,    \* m_showOffline of a list
    inactive    \* m_showInactive of a list

users == <<table, wrote>>
lists == <<list, tabled, watched, told, offline, inactive>>

Empty == [shown |-> {}, counted |-> {}, online |-> {}]

Present(t) == {u \in Users : t[u] # "absent"}
Active(t)  == {u \in Users : t[u] = "active"}

ListsTypeOK ==
    /\ table \in [Users -> {"absent", "active", "away"}] /\ wrote \subseteq Users
    /\ \A v \in Views : list[v].shown \cup list[v].counted \subseteq Users
    /\ watched \in [Views -> SUBSET Users]
    /\ told \subseteq follows /\ tabled \subseteq follows
    /\ {offline, inactive} \subseteq [Views -> BOOLEAN]

ListsInit ==
    /\ Init
    /\ table = [u \in Users |-> "absent"] /\ wrote = {}
    /\ list = [v \in Views |-> Empty] /\ watched = [v \in Views |-> {}] 
    /\ told = {} /\ tabled = {}
    /\ offline = [v \in Views |-> FALSE] /\ inactive = [v \in Views |-> TRUE]

-----------------------------------------------------------------------------
(* userTableChanged() *)

\* What a list shows of the table t and the authors w: labels, with those who
\* are online, or the number of users where there are too many
Listed(t, w, off, inact) ==
    LET candidates == IF off THEN Present(t) ELSE Active(t)
        labels == IF inact THEN candidates ELSE candidates \cap w
        many == /\ Cardinality(candidates) > MaxListed
                /\ inact \/ Cardinality(w) > MaxListed
    IN  IF many THEN [shown |-> {}, counted |-> Present(t), online |-> Active(t)]
        ELSE [shown |-> labels, counted |-> {}, online |-> labels \cap Active(t)]

Current(v) == Listed(table, wrote, offline[v], inactive[v])

\* Every user of the table is watched from then on; faulty: those that are shown
WatchShown(vs) ==
    watched' = [v \in Views |-> IF v \notin follows' THEN {}
                                ELSE IF v \in vs THEN Current(v).shown'
                                ELSE watched[v] \cap Present(table')]

Watch(vs) ==
    watched' = [v \in Views |-> IF v \notin follows' THEN {}
                                ELSE IF v \in vs THEN Present(table')
                                ELSE watched[v] \cap Present(table')]

\* The lists of the views vs are made anew, those of others are as "before"
Remade(vs, before) ==
    /\ list' = [v \in Views |-> IF v \notin follows' THEN Empty
                                ELSE IF v \in vs THEN Current(v)' ELSE before[v]]
    /\ Watch(vs)

userTableChanged(vs) == Remade(vs, list)

\* clear() takes the labels away, and leaves what says how many there are
clear(l) == IF l.shown = {} THEN l ELSE Empty

-----------------------------------------------------------------------------
(* The steps of the views.  A status bar is made with its list, which has the *)
(* default settings; only documentReady() connects it to the table.           *)

documentReady == load' = "Complete" /\ load # "Complete"

\* usersChanged() of the status bars: when the document becomes ready, and when
\* one is made, if it is ready then
Given ==
    {v \in follows' : documentReady \/ (v \notin follows /\ (ready \/ load = "Complete"))}

\* When the Connection closes, all the lists are cleared
Before ==
    [v \in Views |-> IF link' = "closed" /\ link # "closed" THEN clear(list[v]) ELSE list[v]]

ViewStep ==
    /\ Next
    /\ table' = IF load' = "Unloaded" THEN [u \in Users |-> "absent"] ELSE table
    /\ wrote' = IF managed' THEN wrote ELSE {}
    /\ offline'  = [v \in Views |-> v \in follows' /\ offline[v]]
    /\ inactive' = [v \in Views |-> v \notin follows' \/ inactive[v]]
    /\ told' = IF documentReady THEN follows' ELSE told \cap follows'
    /\ tabled' = (tabled \cap follows') \cup Given
    /\ Remade(Given, Before)

-----------------------------------------------------------------------------
(* The session *)

\* userAdded() and userRemoved()
usersChanged(u) ==
    /\ load # "Unloaded" /\ link # "closed"
    /\ \E s \in {"absent", "active"} :
          /\ (s = "absent") # (table[u] = "absent")
          /\ table' = [table EXCEPT ![u] = s]
    /\ UNCHANGED <<vars, wrote, tabled, told, offline, inactive>>
    /\ userTableChanged(told)

\* statusChanged() of a user
statusChanged(u) ==
    /\ table[u] # "absent"
    /\ table' = [table EXCEPT ![u] = IF @ = "active" THEN "away" ELSE "active"]
    /\ UNCHANGED <<vars, wrote, tabled, told, offline, inactive>>
    /\ userTableChanged({v \in follows : u \in watched[v]})

\* colorTableChanged(): a user who is online writes for the first time
colorTableChanged(u) ==
    /\ load = "Complete" /\ table[u] = "active" /\ u \notin wrote
    /\ wrote' = wrote \cup {u}
    /\ UNCHANGED <<vars, table, tabled, told, offline, inactive>>
    /\ userTableChanged(tabled)

-----------------------------------------------------------------------------
(* The menu of a list *)

Settings(off, inact) ==
    Cardinality({v \in Views : off[v]}) + Cardinality({v \in Views : ~inact[v]})

showOffline(v) ==
    /\ v \in follows /\ offline' = [offline EXCEPT ![v] = ~@]
    /\ Settings(offline', inactive) <= MaxSet
    /\ UNCHANGED <<vars, users, tabled, told, inactive>>
    /\ userTableChanged({v} \cap tabled)

showInactive(v) ==
    /\ v \in follows /\ inactive' = [inactive EXCEPT ![v] = ~@]
    /\ Settings(offline, inactive') <= MaxSet
    /\ UNCHANGED <<vars, users, tabled, told, offline>>
    /\ userTableChanged({v} \cap tabled)

\* A crash ends it
ListsNext ==
    /\ crashed = "no"
    /\ \/ ViewStep
       \/ \E u \in Users : usersChanged(u) \/ statusChanged(u) \/ colorTableChanged(u)
       \/ \E v \in Views : showOffline(v) \/ showInactive(v)

ListsSpec == ListsInit /\ [][ListsNext]_<<vars, users, lists>>

-----------------------------------------------------------------------------
(* Properties *)

\* Once the document is ready, the list of a view is the one that would be made
\* from the table as it is now, whoever came, left, or wrote since it was made:
\* no change of what it shows goes unheard.  A view that was made when the
\* document was ready does not hear of users added and removed, but of those it
\* knows it shows what is true.  When the Connection has closed a list may be
\* without labels, until there is something to make it anew.
ListsCurrent ==
    ListsTypeOK /\
    (ready => \A v \in follows :
        \/ link = "closed" /\ list[v] = Empty
        \/ v \notin late /\ list[v] = Current(v)
        \/ v \in late /\
           (list[v].counted \cup Current(v).counted = {} =>
             /\ list[v].shown \cap watched[v] = Current(v).shown \cap watched[v]
             /\ list[v].online \cap watched[v] = Current(v).online \cap watched[v]))
=============================================================================
