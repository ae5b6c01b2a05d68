# A verification of kte-collaborative

These TLA+ modules model the collaborative text editing of this repository:
the KTextEditor plugin, the KIO slave, the notifier daemon and the code they
share. TLC checks them on small instances; TLAPS proves, for every instance,
theorems about all of them but the highlighting of changes. What was found on
the way is in section 7.

Paths are relative to the repository (`common/document.cpp`), modules to this
directory. The library the code is built on (libqinfinity over libinfinity) is
not part of the repository: it is modelled from how the code uses it, and such
definitions are marked external in `PROJECT.json`.

## 1. The system

An infinote server keeps a tree of directories and documents. A client connects
with XMPP, *browses* the tree (a directory has to be explored before its
children are known), *subscribes* to a document, is sent its text, and *joins*
its session under a user name. From then on all participants' edits are
exchanged and merged by the library, and each program sees the merged text
through a buffer that calls it back.

| Part | Code | State it keeps | Operations | Talks to |
|---|---|---|---|---|
| text synchronisation | `common/document.cpp` (KDocumentTextBuffer) | echo flags, user, `m_aboutToClose`; the two texts | remote insertion/removal, local insertion/removal, consistency check, shutdown | the library's buffer, the KTextEditor document |
| offsets, line endings | `common/document.cpp:395-520` | none | offset to cursor and back, conversion of line ends | the same |
| document lifecycle | `kte-plugin/manageddocument.cpp`, `common/document.cpp:522-778` (InfTextDocument) | subscribed, ready, retries, buffer, join state | subscribe, retry, synchronise, join, give up, unsubscribe | plugin, path lookup, library |
| plugin and connections | `kte-plugin/ktecollaborativeplugin.cpp`, `common/connection.cpp` | table of Connections, list of managed documents, views | open/close documents, share and delete connections, subscribe those that wait | documents, library |
| path lookup | `common/utils.cpp` (IterLookupHelper) | remaining components, current node | begin, explore, compare | library's browser |
| KIO slave | `kioslave/kio_infinity.cpp` | connection, peer, last error | get, stat, put, mkdir, del, listDir, mimetype | path lookup, library, notifier (D-Bus) |
| notifier daemon | `notifier-module/infinotenotifier.cpp` | watched URLs, three maps about connections, queued announcements | directory entered/left, connection events, node added/removed, timer | file managers (D-Bus), library |
| Telepathy tubes | `kte-plugin/ktpintegration/inftube.cpp` and the two handler programs | infinoted processes, channels, ports | start a server, offer, accept, close, list channels | Telepathy, infinoted, other programs (D-Bus) |
| plugin view | `kte-plugin/ktecollaborativepluginview.cpp`, `kte-plugin/ui/statusoverlay.cpp` | enabled actions, status bar, list of users, overlay, dialogs | follow the document, its users and the tracker | plugin, document |
| undo | `common/document.cpp:582-600, 681-722` (InfTextDocument) | the undo actions taken from the views | take them, enable them, call undo | views, library |
| change tracker | `kte-plugin/documentchangetracker.cpp`, ColorHelper in `common/utils.cpp` | highlighted ranges, colours | split, add, clean up | document |
| sharing and opening | `kte-plugin/ui/sharedocumentdialog.cpp`, `ui/opencollabdocumentdialog.cpp`, requester in `inftube.cpp` | a modal dialog, its requests | ask for a tube, close, upload, open | view, tubes, KIO |
| the rest | `kte-plugin/settings/`, `common/itemfactory.cpp`, `common/noteplugin.cpp`, small widgets | none to speak of | configuration, icons | |

Everything runs in one thread. What makes the code hard is not preemption but
the event loop: a slot may run between any request and its answer; dialogs and
the KIO slave's waits are event loops *inside* a slot; Qt delivers one signal
to several slots in the order they were connected, and a slot may edit the
text, or delete the sender, before the next one runs. On the other side of the
socket other people change the same files at the same time.

### What makes each part correct, and what is hard about it

* **Text synchronisation.** The editor shows the session's text whenever the
  event loop runs, and no participant's operation is lost. Hard: each change
  comes back as an echo that one flag must swallow, exactly once; the slot of
  an edit reads the *current* document, so nested edits arrive inside out.
* **Document lifecycle.** The user can type only into a joined document; opening
  always comes to an end; late answers do not disturb a document that has moved
  on. Hard: retries by a timer and by added nodes at the same time, nested
  event loops, reopening while earlier requests are under way.
* **Connections.** One live Connection per host; no document waits for an event
  that has passed; a broken connection stops the editing. Hard: the order of
  the slots, plain pointers to Connections that are deleted.
* **Path lookup.** The node found is the one named, in the tree as it is then;
  a lookup ends. Hard: the tree changes during a lookup, trailing slashes.
* **KIO slave.** Each call asks its own host and reports the answer to its own
  request; each call ends. Hard: all requests answer to the same two signals,
  and timeouts leave requests behind.
* **Notifier.** What is shown is watched, what is seen is announced. Hard: three
  maps and a set that must agree while connections come and go.
* **Offsets and line endings.** A place has the same meaning in the session, which
  counts code points, and in the editor, which counts lines and UTF-16 units.
* **Change tracker.** What a user wrote is shown in that user's colour and no
  other. Hard: ranges move, split, shrink and become empty with every edit.
* **Plugin view.** What is offered and shown agrees with the document. Hard: views
  are made before, while and after the document is opened; dialogs outlive it;
  lists are renewed only when they hear of a change.
* **Tubes.** Each tube leads to its own server, and every open one is known. Hard:
  a handler inside a dialog is interrupted by others of its kind.
* **Sharing.** What is opened was uploaded; what was closed comes back. Hard: the
  dialog stays usable while a request is under way.

`PROJECT.json` lists the hazards line by line, each with the properties that
cover it, or a note saying why none does yet.

## 2. Modules

| Module | Models | State and actions |
|---|---|---|
| `SharedText` | *abstract*: what a collaborative document promises | one shared text, one shown text; both change together while attached |
| `TextSync` | KDocumentTextBuffer | `doc`, `buffer`, `blockRemoteInsert`, `blockRemoteRemove`, `aboutToClose`, ... are the fields of the code; `RemoteInsert`/`RemoteErase` are a change of the buffer with `onInsertText`/`onEraseText`; `EditorInsert`/`EditorRemove` an edit in the editor; `localTextInserted`/`localTextRemoved` the slots |
| `ManagedDocument` | ManagedDocument and InfTextDocument, one document | variables named after the members (`m_subscribed` is `subscribed`); one action per slot or answer |
| `PluginConnections` | the plugin, its Connections and all managed documents | `connections` is `m_connections`; `receivers` the order of the slots of each `disconnected()` |
| `FileTree` | the server's tree | operators only: what a path names (`IsNamed`), what is in the tree (`Reachable`), a tree without a node (`Without`) |
| `PathLookup` | IterLookupHelper over a changing tree | `remaining`, `current` as in the code; `stage` says what it waits for; `gone` are nodes that were removed |
| `KioSlave` | the slave, call after call | `control` is the event loop that runs; `stale` counts requests left behind |
| `Notifier` | the daemon | `watchedUrls`, `entry` (`m_connectionItemMap`), `hostBrowser` (`m_hostBrowserMap`), `queue` |
| `TextOffsets` | the conversions of `common/document.cpp:395-464` | operators over lines of units, faithful to the loops' early ends |
| `MovingRanges` | the editor's text and moving ranges, *external* | operators from a document to a document |
| `ChangeTracker` | the tracker's slots and ColorHelper | operators from a document with ranges and colours to another |
| `EditedText` | the composition of these three with the session's text | one action per operation of a participant, joining, the conversion of line ends |
| `InfTube` | the server and the client handler of tubes | `channels` is `m_channels`; `stack` holds the handlers that are inside a dialog, innermost last, and only that one can go on |
| `Opening` | *abstract*: what the rest of the plugin sees of the life of a document | four observable variables: URL, managed, load state, ready |
| `PluginView` | the views of a document over `Opening` | sets of views: which exist, hear, follow, offer; `link` is how far the document's Connection has come, which the bars say (`connectionStatusChanged`); a step of the document and all the views' slots is one step |
| `UserLists` | the lists of users in the views' status bars, over `PluginView` | `table` is the session's; `list` what is shown, `tabled` which lists have the table, `watched` and `told` which signals are connected |
| `Sharing` | the dialogs to share and to open, and the tube's requester | `request` by number, in the order they were made; `wired` while the dialog is connected to it |
| `TextSyncProofs`, `ManagedDocumentProofs`, `PluginConnectionsProofs`, `KioProofs`, `NotifierProofs`, `TubeProofs`, `PluginViewProofs`, `EditedTextProofs` | theorems (section 5) | `KioProofs` is about the slave and the lookup it uses, `PluginViewProofs` about the views and their lists, `TubeProofs` about the tubes and the dialogs that ask for them |
| `MC*` | instances for TLC | constants only |

`TextSync` implements `SharedText` (`ImplementsSharedText`, a refinement mapping
that hides an edit until it has been signalled). `ManagedDocument` implements
`Opening` (`ImplementsOpening`: lookups, subscriptions and sessions are hidden),
so that the views, which see no more of a document than that, are checked over
`Opening` with every order of events `ManagedDocument` has and some it has not.
`UserLists` is `PluginView` with more variables: its steps are steps of the views
or leave them alone. `PathLookup` is written over `FileTree`.

The modules divide one program between them as follows: what `ManagedDocument`
does with a connection is the subject of `PluginConnections`;
whether a path is found is `PathLookup`'s, which `ManagedDocument` and
`KioSlave` see as an answer; the texts are `TextSync`'s, which takes from
`ManagedDocument` that the editor opens only with the join; `TextSync` says when
the two texts are brought together and `EditedText` where.

Several modules contain operators marked *Faulty*. They are small errors that
could have been made in that place; no action uses them. Each property of a
passing run is refuted when one of them replaces the definition beside it, which
shows that the property depends on that definition (`mutants` in `PROJECT.json`).

### Abstractions that matter

* `TextSync`: positions are offsets in code points. The buffer's refusal of an
  offset beyond its end may or may not come with a callback (`RefusalSilent`).
  A text grows up to `MaxLen`. The edit of a slot that runs before ours is any
  edit (`MaxNested` > 1).
* `ManagedDocument`: the connection stays open. A subscription to a node that
  already has one is refused; the refusal may or may not be signalled. Deferred
  deletions happen before the next event from the network. A lookup finds the
  file, fails, or hangs (`lookupHangs`, remembered in `hung`): of an exploration
  only the success is connected (`common/utils.cpp:128-130`).
* `PluginConnections`, `Notifier`: reading through a pointer to a deleted object
  either crashes (`crashed`) or does nothing; both are considered. Identities of
  Connections are used once. A subscribed document may become ready at any time,
  or never.
* `PathLookup`: each node has an identity of its own, as in the library: one that
  was removed never comes back, another of its name may. Only the last component
  of a path may be empty. Files change while an exploration is under way; between
  two of them the helper does not return to the event loop.
* `KioSlave`: `get` and `stat` are one kind of call: they differ in data only.
  `put` differs from `mkdir` in reading its data first, in a loop that a failed
  read does not end (`kio_infinity.cpp:233-248`). Of the size it adds up only the
  sign is kept, for that decides whether it fails.
* `EditedText`: a character is plain, wide (two units), a return or a newline, and
  carries, for the properties only, the name of who wrote it. The ranges of the
  editor follow its documented rules: they do not expand and may become empty.
* `InfTube`: a server that is slow may start after it was given up, and a
  connection may reach an older server at the same port. Telepathy offers a tube
  with what `exportTcpSocket()` was last called with.
* `PluginView`: a slot of all the views is one step with what caused it. A document
  may be given a Connection at any stage (`link`). After the use of a null pointer,
  of a deleted action or of a deleted Connection (`crashed`) nothing is said.
* `Sharing`: an upload succeeds, fails, or hangs in the slave's lookup; what is asked of the user has any
  answer. Requests are numbered and used once.
* Wording, logging and layout are left out everywhere.

## 3. Runs

All runs are `tlc -config <cfg> <module>`. Where deadlock is not checked the
instance may rightly stop: a bound is reached, the document is closed, or, in
`views`, the program has crashed.

| Run | Instance | Shows |
|---|---|---|
| `text_in_order` (`TextSync.cfg`) | 4 characters, texts up to 3 before a tab is expanded, tabs of 4 | `InOrderInv`: the editor shows the session's text at rest, an edit under way explains the difference, no flag stays up, the check never throws the user out; `ImplementsSharedText`, when each edit is signalled before the next |
| `text_nested` (`TextSyncNested.cfg`) | edits nested 3 deep, texts up to 2, tabs of 2 | an editor that takes part still shows the session's text: nesting may cost the session, never the consistency; `NoArmedFlagAtRest`, `ClosedForGood` |
| `document_life` (`ManagedDocument.cfg`) | opened up to 3 times, 4 additions/removals of files, 5 retries as in the code, 4 lookups at once | `WritableOnlyWhenJoined`, `ReadyUnlessOverlapped`, `NotForgotten`, `LateAnswersAreLost`, `ImplementsOpening`, `Settles` |
| `connections` (`PluginConnections.cfg`) | 3 documents, 2 hosts, 3 Connections | `TableIsLive`, `NoneOverlooked`, `IsSubscribed` |
| `lookup` (`PathLookup.cfg`) | all trees of 2 directories and 2 files, all paths of 1 or 2 names, 3 changes | `FindsWhatIsNamed`, `FailsOnlyIfAbsent`, `Ends` |
| `lookup_slash` | the same, with a trailing slash, no changes | *refutes* `FindsWhatIsNamed` |
| `kio` (`KioSlave.cfg`) | 4 calls, 2 hosts | `ReportedUnlessTimedOut`, `SlaveInv`, `RightHostUnlessFailed`, `CallsEnd` |
| `notifier` (`Notifier.cfg`) | 3 directories on 2 hosts, 2 Connections, 2 views, 1 change | `WatchedIsServed`, `ShownIsWatched`, `SeenIsQueued`, `CrashExplained` |
| `tubes` (`InfTube.cfg`) | 2 tubes offered, 2 accepted, 2 contacts, 2 ports, 2 attempts | `OpenIsKnown`, `ListedIsOnline`, `TubesInv`: documents are opened at their own tube's port, what is offered is served, with the port exported for it |
| `views` (`PluginView.cfg`) | 2 views, 2 users, one name shown at most, one setting changed | `ViewsInv`, `ReadyShownUnlessLate`, `CrashedOnlyIfLost`, `ListsCurrent` |
| `edited_text` (`EditedText.cfg`) | texts up to 5 characters, 4 edits, wide characters, returns and newlines; 2 users, and, in a second start, 5 of whom one finds no free colour, 3 edits | `SameText`, `OffsetsRoundTrip`, `AuthorsShown`, `HighlightInv` |
| `sharing` (`Sharing.cfg`) | 2 requests | `OpenedIsUploaded`, `SourcelessOnlyAgain`, `ComesBack` |

### Why the bounds are enough

* Texts: an operation has at most two ends and one tab; three characters leave
  room for one before, in and after it, and the proofs lift the bound. Nesting
  of three lets a nested edit itself be interrupted.
* Five buffers suffice because at most four are ever referred to at once; this is
  an assumption of the module. Five retries are the code's; reopening twice is
  needed for a document to meet the remains of its predecessor's requests and
  be reopened once more on top.
* Three documents on two hosts: two share a Connection and one does not. A third
  Connection lets one host be connected again after a loss while the other is
  still alive.
* Two directories and two files give siblings, a file where a directory is
  expected, and equal names in different directories; three changes allow a node
  to be removed, another to come in its place and to be given a child, all while
  one exploration is under way. The proofs lift these bounds.
* A late answer needs two calls, a wrong host three; four leave one more.
* Two Connections in the notifier are two hosts, or the double connection to one
  host; a third gives no new relation among the maps. Connections are
  interchangeable (symmetry); no liveness is checked with it.
* Two tubes each way let a handler be interrupted by one of its own kind, to the
  same contact and to another; two ports with two attempts wrap around and meet a
  port in use. The numbers of the ports are the code's only in their order.
* Two views are one made in time and one made late. The views alone, without the
  lists, were also checked with three of them (185,807 states), and the proofs
  lift that bound. One name with two users is enough to have too many. With the
  stages of the Connection the instance has 1,786,368 states.
* Four edits insert into, beside and around what another wrote and remove it
  again. All names have the same hash, so that a second user takes the second attempt of
  `colorForUsername`, a third the third, and so on. Five is where the twelve
  attempts run out: in the second start four others have written and are gone from
  the text, and the fifth gets the colour of the first. The two starts together
  are 283,126 states and take about a minute. For the texts, the offsets and the
  colours the proofs lift these bounds.
* Two requests of the sharing dialog are one still under way when the other is
  made; the proofs of `OpenedIsUploaded` and `SourcelessOnlyAgain` lift that bound.

## 4. Fairness

* `ManagedDocument`: timers fire and the user answers what is asked. A lookup finds
  the file, fails *or hangs*; a subscription is made or refused, the text arrives or
  the session is closed, a join succeeds or fails: weak fairness is on each of
  these disjunctions, so that neither the network nor the library is assumed to be
  kind in its answer. Nothing is assumed of other people and of the user's own
  initiative, nor that the connection opens at all.
* `PluginConnections`: names are looked up; attempts to connect succeed or
  fail. A connection that is open is not obliged to break. Of the documents
  nothing is assumed: whether a subscribed one becomes ready is `ManagedDocument`'s
  question.
* `PathLookup`: the helper runs, explorations are answered.
* `KioSlave`: the timers; a lookup is answered or hangs; the data of a `put` ends or
  fails to be read, and after a failed read nothing is assumed of the next. Requests
  need not be answered at all.
* `Sharing`: Telepathy answers the request for a tube, with a channel or an error;
  an upload succeeds, fails or hangs, since it goes through the slave's `put`, whose
  lookup has no timer (`kio_infinity.cpp:352-358`). The user is not obliged to close
  a dialog.

`TextSync`, `Notifier`, `InfTube`, `PluginView`, `UserLists` and `EditedText` have
no fairness and no liveness property: no slot there waits for anything but the
user.

The liveness properties name the exceptions the code has. `Settles` speaks of a
document whose browser is open; it excepts one for which a lookup hung and nothing
else is under way (a timer, an added node or another request may still help it),
and one opened again whose subscription was refused because of one from before.
`IsSubscribed` excepts a host that is not found and a connection that breaks; it
ends with the subscription, after which `Settles` takes over. `Ends` excepts a
failed exploration and a file in the place of a directory; `CallsEnd` a lookup
whose exploration fails or whose connection is lost, and a `put` whose data could
not be read; `ComesBack` a dialog that is cancelled, a tube or an upload that
fails, an upload that hangs, and one that is done while the user is still asked
about unsaved changes. It says nothing of a dialog that was accepted for an earlier
request and is gone when the document is closed.

## 5. Proofs

| Module | Theorem | Property |
|---|---|---|
| `TextSyncProofs` | `TypeCorrect` | `TypeOK` |
| | `InOrderInvariance` | `InOrderInv` |
| | `Consistency` | its part `EditorMatchesBuffer` |
| | `NothingSwallowed`, `NothingSwallowedNested` | `NoArmedFlagAtRest` |
| | `InOrderImplements`, `NestedImplements` | `ImplementsSharedText` |
| | `StaysClosed` | `ClosedForGood` |
| `ManagedDocumentProofs` | `NoEarlyEdits` | `WritableOnlyWhenJoined` |
| | `FedBySession` | `ReadyUnlessOverlapped` |
| | `SomethingUnderWay` | `NotForgotten` |
| | `LateAnswers` | `LateAnswersAreLost` |
| | `DocumentImplementsOpening` | `ImplementsOpening` |
| `PluginConnectionsProofs` | `TypeCorrect` | `TypeOK` |
| | `TableLive` | `TableIsLive` |
| | `NobodyOverlooked` | `NoneOverlooked` |
| | `DocumentsNotTold` | the documents' slots never run |
| `KioProofs` | `FindsNamed` | `FindsWhatIsNamed` |
| | `FailsIfAbsent` | `FailsOnlyIfAbsent` |
| | `WrongOnlyForFiles` | the same with a trailing slash, but for files |
| | `TypeCorrect` | `TypeOK` |
| | `RightHost` | `RightHostUnlessFailed` |
| | `Reported` | `ReportedUnlessTimedOut` |
| | `NoErrorLeft` | `SlaveInv` |
| `NotifierProofs` | `Watched` | `WatchedIsServed` |
| | `Shown` | `ShownIsWatched` |
| | `Announced` | `SeenIsQueued` |
| | `NoOtherCrash` | `CrashExplained` |
| `TubeProofs` | `TubesCorrect` | `TubesInv` |
| | `OpenKnown` | `OpenIsKnown` |
| | `ListedOnline` | `ListedIsOnline` |
| | `Opened` | `OpenedIsUploaded` |
| | `Sourceless` | `SourcelessOnlyAgain` |
| `PluginViewProofs` | `ListsImplementViews` | `ListsSpec => Spec` |
| | `ViewsConsistent` | `ViewsInv` |
| | `ReadyShown` | `ReadyShownUnlessLate` |
| | `NoOtherCrash` | `CrashedOnlyIfLost` |
| | `ListsAreCurrent` | `ListsCurrent` |
| `EditedTextProofs` | `TextsAgree` | `SameText` |
| | `OffsetsTranslate` | `OffsetsRoundTrip` |
| | `AuthorsAreShown` | `AuthorsShown` |
| | `ColoursTellUsers` | `HighlightInv`, for any number of users |
| | `FewAreApart` | up to three users have colours more than 30 degrees apart, with no exception |
| | `RangesPlaced` | its parts `TypeOK` and `RangesInLines`, for any number of users |

**Text.** The theorems from `InOrderInvariance` to `NothingSwallowed` assume
`InOrderSignals`: edits do not nest and removals are not empty, which is how
KatePart's own edits behave. `EditorMatchesBuffer` speaks of moments when no edit
is being signalled, so it cannot be inductive; `PendingExplains` says what holds
meanwhile: the edit at hand is exactly the difference of the two texts. Together
with the flags being down and a writable document having a user (without which a
local edit would be dropped and the texts would part) this is `InOrderInv`, which
every step preserves. A remote operation changes both texts alike; a local one is
made in the document first, and the slot cancels the difference. The algebra is
in lemmas: removing what was inserted, or putting back what was removed, gives
the text before (`CutSplice`, `SpliceCut`). The theorems hold for every alphabet,
tab width and length of text.

With nested edits the difference is no longer one edit, and the refinement needs
less: `ReportedInv` says only that attached texts differ while the innermost edit
still has its signal to come, whose slot compares them. It is preserved as long as
no flag stays up, whatever the order of the signals, so that the flags are all
that the promise of `SharedText` depends on (`FlagsDecide`). They stay down in two
cases: when edits do not nest, even if the library refuses operations silently
(`InOrderImplements`), and when they nest but a refusal is signalled and no
removal is empty (`RefusalsTold`, `NestedImplements`). `StaysClosed` has no
hypothesis at all.

**Document.** What the properties need beyond themselves is what the library and
the document know of each other. `LetGo`: a document that is not managed has
nothing left that could answer to it. `OneAtATime`: the library has a request or a
session, never both. `Follows`: the InfTextDocument follows its session, and the
ManagedDocument the InfTextDocument. `OneBuffer` and `FirstTime` say when the
buffers agree: until a subscription is refused. `UnderWay` is the strengthening
of `NotForgotten`: what is under way is the document's own. A lookup that hung is
no longer under way, and `hung` is what `NotForgotten` then leaves to say.
`LateAnswers` is about a document that was let go, and about the requests it left:
their failure does not reach the next ManagedDocument of the document. Their
success may, which is why `ReadyUnlessOverlapped` has its exception. For the
refinement every action is shown to be a step of `Opening` or to leave what that sees alone,
as lookups and subscriptions do.

**Connections.** `IInv` joins `TableIsLive` and `NoneOverlooked` with `Pointers`:
a managed document has a Connection that was once made, and of its host's.
An unused identity is thus referred to by nobody and may be given away.
`SlotsInv` adds that the plugin's slot is the first of every `disconnected()`;
it deletes the sender, so that none of the documents' slots ever runs.

**Lookup.** `UnderWay` says where a lookup stands: the directory it is in is what
the components taken so far lead to, *if it is still in the tree*. `ThereOrGone`
makes use of a removed node never coming back: a directory in the tree now was
there all the time. What a path leads to is defined by a line of nodes from the
root, without recursion, so that it can be reasoned about: lines are prolonged
(`LeadsFurther`), survive in a tree that grows and in one that shrinks if their
end does, and lead to one node only (`LeadsToOne`), because siblings have
different names. Where induction over the length is needed, it is `SetInduction`,
which follows from the well-foundedness of strict inclusion. `Reachable` is the
smallest closed set with the root, and `Grown` and `Pruned` say what adding and
removing do to it. `FindsNamed` assumes `PlainPaths`, that no path ends with a
slash: so the plugin asks (`kte-plugin/manageddocument.cpp:148`). For the slave's
paths `WrongOnlyForFiles` says that a directory is never mistaken.

**KIO slave.** `HostInv`: until an attempt to connect fails, the connection
belongs to the host of the call, and, once made, `m_connectedTo` agrees with it.
`ErrorInv`: until a request times out none is left behind and no error either.
Both are inductive with the types. The reading of a `put` touches neither: it
sends nothing.

**Notifier.** The three maps are tied together: `Entries` (an item is there while
its connection is opening or open, and the null entry is left by an end in two
steps), `Browsers` (`m_hostBrowserMap` leads to a connection of that host) and
`Single` (without two connections to a host at once the map names the one there
is). `Served` is stronger than `WatchedIsServed`: what serves a watched URL is
named. `History` relates the ghost variables to the state they explain.

**Tubes.** The handlers that are inside a dialog are on a stack, and what has to be
true of a tube depends on whether it is on one. `StackInv`: each is there once, in
its own process, with its own port. `WatchInv`, `OnlineInv` and `KnownInv` say of
listed tubes and of those on the stacks alike what the properties say of the
listed ones, so that a handler that returns has nothing left to establish. The
depth of the stacks and the numbers of tubes, contacts and ports are arbitrary.

**Views.** `IInv` joins the three properties, each of which is nearly inductive,
with what the abstract document lets the views see (`DocumentInv`: without a
ManagedDocument nothing is loaded or ready) and with `DialogInv`: at most one view
is in a dialog, and it has its document or has lost it there. The latter is why
an answer to a dialog is the only use of a null document: every other slot that
uses one belongs to an action that `ActionsHaveDocument` keeps disabled without.
The proof is over `PluginView`; `ListsImplementViews` carries it to the
composition with the lists, whose own steps leave the views alone.
`ReadyShown` follows the bars through the stages of the Connection: a ready document
was loaded over an open one, and from then on only the Connection's closing and its
end change what they say. The Connection is deleted with its end, so that a view
made afterwards asks a dangling pointer for its status, the fourth cause of a crash
that `CrashedOnlyIfLost` allows.
The lists are current by two facts that hold once the document is ready: a list
made in time is what a new one would be and is connected to everybody
(`CurrentInv`), and any list is right about the users it is connected to
(`KnownInv`). Both allow for a list that was cleared when the Connection closed and
that nothing has made anew since.

**Sharing.** `WiredInv`: while the dialog is shown over a view without a document,
it is connected to something it has asked for. So a request without a source can
only be made after another one in the same dialog. What is opened has been made
and is over, and no later request takes its number.

**Offsets.** Neither `SameText` nor `OffsetsRoundTrip` is inductive: the cursor that
the code computes from an offset has to be related to the text first. The invariant
(`Shows`) says that *some* sequence of places spells the text: the first is the
start of the document, each character's units are those between its place and the
next, and the last place is the end. Two groups of lemmas meet there. The first is
about a document that does not change: a walk by characters along a line follows
the places (`RestWalks`, `WalkUnits`), counting the characters of a line's part
counts the places in it, so that `offsetToCursor_kte` of an offset is the place
with that number and `cursorToOffset_kte` of a place is its number
(`PlaceOfOffset`, `OffsetOfPlace`); and every cursor outside a surrogate pair is a
place (`CursorIsPlace`). The second is about the edits: an insertion or a removal
leaves the lines up to one place alone and moves what is behind another along
(`Upto`, `Beyond`), and the places are spliced accordingly (`Spliced`). The
conversion of line endings uses a list of lines that is out of date after the
first replacement; that it goes from the last to the first is what makes the stale
positions right, since a replacement changes nothing before it (`Reached`). The
model's recursive functions are treated as their equations; that a function with
the equation exists is shown up to each number (`UpTo`). The theorems hold for all
texts, lines, users and bounds.

**Who wrote what.** `AuthorsShown` speaks of single characters and is far from
inductive. Between two edits (`Marked`) the ranges are `Sound`: each is in one line
and in the text, no two show the same character, each has the colour of a user, its
own one's if it has a name; and the highlighting is `Whole`: each character is in a
range of its author's colour, or in none if it is nobody's. Three things happen to
this.

* An insertion: the editor moves the ranges behind it (`Pushed`) before the tracker
  hears of it. At most one range, which the text went into, then covers what it
  should not, perhaps several lines of it; the others are on one side (`Torn`,
  `Parted`), and what is outside is still shown right (`Outside`).
  `userChangedText` puts that in order line by line, and `Pend` is what holds up to
  a line: all is right behind it, and in each line to come at most one range is in
  the way of the new text and goes over all of it (`Open`). The steps of a line are
  a range cut at a newline (`NewlineOpens`), cut around the text (`CutOpens`),
  extended (`ExtendPaints`), or a new one (`AddPaints`); the loop over the lines is
  an induction (`LinesDone`).
* A removal moves all cursors in it to its start (`Pulled`). The order of any two
  stays, so that ranges apart stay apart; some become empty, and the tracker drops
  them at the next change.
* A new user gets a colour. The ranges tell users apart by it, so that extending a
  neighbour of the same colour is only right if it means the same user.
  `colorForUsername` tries the hash and turns it by 150 degrees at each attempt;
  four attempts, three apart, make a cross, and one hue in use is close to one arm
  of it at most (`FourApart`). With two other users and the colour of the initial
  contents, one of the twelve attempts is free (`HueFound`), and all hues are apart
  (`HuesApart`).

With more users the attempts may run out. The last hue is then taken unchecked, the
same as the first, and made darker or lighter only if the one before it was less
than 30 degrees away from a used one; at exactly 30, which the loop refuses as well,
it is not, and the new user may look exactly like another. What can be said for any number of users is that this happens for want of a place and not for a
mistake of the search: each of the four arms of the cross was refused for a user
close to it, so that the three others are taken whatever the fourth is
(`FourTaken`, `HueTaken`). That is `Crowded`, the exception of `ColoursApart`, and
`ColoursTellUsers` holds without an assumption. `AuthorsAreShown` and `FewAreApart`
assume `FewUsers`, no more than three. With more, what a user wrote may be under
the colour and the name of another, which `AuthorsShown` allows for those who are
`Mistaken`; the run `edited_text` reaches this with five names of one hash.
`RangesPlaced` needs no assumption, and neither do the theorems about the text.

The proofs use the modules' named assumptions on the constants and, where a
theorem says so, the hypotheses `InOrderSignals`, `RefusalsTold`, `PlainPaths` and
`FewUsers`. There are runs that satisfy the first three; the only one with colours has
five users, so that what `FewUsers` adds rests on the proof.

### Model-checked only

* Liveness, which needs fairness and ENABLED: `Settles`, `IsSubscribed`, `Ends`,
  `CallsEnd`, `ComesBack`.
* `AuthorsShown` for more than three users, with those who are `Mistaken`.
* What `InOrderInv` becomes when edits nest: there the proofs establish that the
  flags stay down and that `SharedText` is implemented, and no more.

## 6. Not modelled

* The grouping of undo operations: the library groups and reverts them, and they
  reach the buffer like remote ones. The timer of UndoGrouping only decides how
  much one undo takes back.
* Settings, icons, the note plugin: no state that outlives a call.
* In the views: notifications of changes, hints, progress in percent, the actions
  that start a terminal or a file manager. They show something and keep nothing.
* `inftube-old.cpp`: not built.
* Tests of the repository that need a server are read for what they expect
  (`tests/`), not modelled.
* The library's merging of operations: external; `TextSync` takes its result, a
  sequence of changes to the buffer.

## 7. Findings

| Run | Code | What |
|---|---|---|
| `lookup_slash` | `common/utils.cpp:188` | With a trailing slash, which the KIO slave always adds, a name that does not exist is found to be the last file of the directory. That nothing else can be wrong, and no directory, is `WrongOnlyForFiles`. |

The other places where the code does not do what one would expect are the
exceptions that the properties name; without the exception each is refuted by
its run:

| Property | Code | What |
|---|---|---|
| `ReadyUnlessOverlapped` | `kte-plugin/manageddocument.cpp:162-163` | The timer and an added node both repeat the lookup. If both succeed, the second replaces the text buffer of the first: the document becomes ready with a buffer that its session does not write to. |
| `ReportedUnlessTimedOut` | `kioslave/kio_infinity.cpp:425` | The answer to a request that timed out is taken for that of the next. |
| `RightHostUnlessFailed` | `kioslave/kio_infinity.cpp:173` | After a failed attempt to connect to a second host, calls to the first use the connection of the second. |
| `CrashExplained` | `notifier-module/infinotenotifier.cpp:151` | Closing a connection in two steps leaves a null entry in `m_connectionItemMap`, one of two causes of a crash. |
| `ShownIsWatched` | `notifier-module/infinotenotifier.cpp:283` | One view that leaves a directory ends the watch for all. |
| `ReadyShownUnlessLate` | `kte-plugin/ktecollaborativepluginview.cpp:411` | A view made when the document is ready is never told so: its actions stay disabled. |
| `ListsCurrent` | `kte-plugin/ktecollaborativepluginview.cpp:686-689` | The list of such a view does not hear of users who are added or removed. |
| `CrashedOnlyIfLost` | `kte-plugin/ktecollaborativepluginview.cpp:577, 621` | The document may be let go while a dialog about it is open; the answer then uses a null pointer. |
| `CrashedOnlyIfLost` | `common/document.cpp:707` | The undo actions of closed views stay in `undoActions` and are enabled with the others. |
| `OpenIsKnown` | `kte-plugin/ktpintegration/inftube.cpp:76` | Asking for the channels drops, for good, those that the peer has not accepted yet. |
| `ListedIsOnline` | `kte-plugin/ktpintegration/inftube.cpp:317` | A contact that goes offline while the handler is in a dialog is listed afterwards and not closed. |
| `Settles`, `NotForgotten` | `common/utils.cpp:128-130` | A lookup whose exploration fails is never answered; nothing then ends the opening. |
| `CallsEnd` | `kioslave/kio_infinity.cpp:235-241` | `put` goes on reading after a read that failed. |
| `CrashedOnlyIfLost` | `kte-plugin/ktecollaborativepluginview.cpp:510` | A view made after the Connection has closed asks the deleted Connection for its status. |
| `ListsCurrent` | `kte-plugin/ktecollaborativepluginview.cpp:299` | The list is emptied when the Connection closes, while the document stays ready. |
| `HighlightInv`, `AuthorsShown` | `common/utils.cpp:231` | When all attempts at a colour fail, the last hue is dimmed at a distance below 30 degrees, but the loop refuses 30 too (line 221): a user may get exactly the colour of another, and the text the other's name. |
| `AuthorsShown` | `kte-plugin/documentchangetracker.cpp:115` | Text behind a newline typed into a range keeps its colour but loses the name in its tool tip. |
| `OpenedIsUploaded` | `kte-plugin/ui/sharedocumentdialog.cpp:106` | The dialog ignores the error of its own copy and opens the document anyway. |
| `SourcelessOnlyAgain` | `kte-plugin/ui/sharedocumentdialog.cpp:90` | A second share in the same dialog shares a document that the first has closed. |
| `ComesBack` | `kioslave/kio_infinity.cpp:352-358` | An upload waits for a lookup without a timer, and the sharing dialog for the upload. |
| `ComesBack` | `kte-plugin/ui/sharedocumentdialog.cpp:161` | The dialog is connected only after the document was closed; an upload that ends meanwhile is heard by nobody. |

Met in the models and said by no property: documents whose connection broke, or
whose host was not found, stay in the list whose comment says that all are "being
synchronized, or are currently being connected"
(`ktecollaborativeplugin.h:97-101`); the plugin deletes a Connection in the first
slot of its own `disconnected()`, so that the documents' slots never run and the
documents stay writable (`ktecollaborativeplugin.cpp:236`, theorem
`DocumentsNotTold`); the end of an exploration in `listDir` is
connected to a signal with other parameters (`kio_infinity.cpp:387`), so that
listing a directory not explored yet waits for the timeout; two tubes may share a
server when a connection to an old one is taken for the new one's success
(`inftube.cpp:419`); `replaceLineEndings` turns "\r\n" into two newlines, because
the newline it looks for begins the next line (`document.cpp:508-516`); a share
begun in a dialog of the sharing dialog goes on although that was accepted, and
closes the document just opened (`sharedocumentdialog.cpp:183`); the status bar of
a new document says "Disconnected" until its host has been looked up, which its
comment excludes (`ktecollaborativepluginview.cpp:295-296`), because a Connection
begins as closed (`common/connection.cpp:41`).

## 8. Plan

Done: the plan of the first version (offsets, tubes, views, tracker, `Opening`)
and, beyond it, the lists of users and sharing.

Done since: theorems for the lists, the document, the notifier, the tubes, the
lookup, nested edits, offsets, line endings and the highlighting, and all
refinements. Every safety property of a run is stated by a theorem.

Next: the composition of `Sharing` with `InfTube`, for which the requester has to
name its channel, and of `KioSlave` with `PathLookup`, which share the iterator of a
lookup that failed (`kio_infinity.cpp:333`).
