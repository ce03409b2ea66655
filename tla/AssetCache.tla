----------------------------- MODULE AssetCache -----------------------------
(* The asset cache of common-templating (lib.rs): `build` verifies the pinned *)
(* files at boot, `static_file` serves a name from the cache while the file's *)
(* mtime is the one the entry was stamped with.                              *)
(*                                                                           *)
(* Callers are threads sharing one AssetCache. static_file takes no lock     *)
(* across its steps: it resolves the name, takes the mtime, looks the entry  *)
(* up, reads the file and stores an entry, and whoever deploys files writes, *)
(* removes and relinks them between any two of these.                        *)
EXTENDS Integers

CONSTANTS Caller,
          Name,      \* the names asked for, without `..` and not absolute
          Path,      \* real paths under the canonical root
          Outside,   \* all other places
          Content,
          Pin,       \* the content a name is pinned to, or None
          Coarse,    \* two writes may leave the same mtime
          MaxClock,  \* bound: the mtimes of the model
          None

Time == 0..MaxClock

ASSUME CacheAssumption ==
  /\ None \notin Path /\ None \notin Content
  /\ Outside \notin Path \cup {None}
  \* errors are no paths and no contents
  /\ {"missing", "unsafe", "mismatch"} \cap (Path \cup Content) = {}
  /\ Pin \in [Name -> Content \cup {None}]
  /\ Coarse \in BOOLEAN
  /\ MaxClock \in Nat

VARIABLES link,      \* where canonicalize leads a name
          files,
          clock,     \* the mtime of the latest write
          boot,      \* build: the pinned names still to verify, and what came of it
          entries,
          call,
          had        \* history: the contents the file of a call has had since it began

vars == <<link, files, clock, boot, entries, call, had>>

File == [content : Content, mtime : Time]

Entry == [mtime : Time, bytes : Content]

\* pc: has the path and awaits the mtime; has the mtime and looks the entry up;
\* awaits the bytes; awaits the write lock. `result` is of the call before.
CallState ==
  [pc : {"idle", "stat", "lookup", "read", "insert"},
   name : Name \cup {None},
   path : Path \cup {None},
   mtime : Time,
   bytes : Content \cup {None},
   result : Content \cup {None, "missing", "unsafe", "mismatch"}]

NewCall ==
  [pc |-> "idle", name |-> None, path |-> None, mtime |-> 0, bytes |-> None, result |-> None]

TypeOK ==
  /\ link \in [Name -> Path \cup {Outside, None}]
  /\ files \in [Path -> File \cup {None}]
  /\ clock \in Time
  /\ boot \in [left : SUBSET Name, state : {"building", "serving", "refused"}]
  /\ entries \in [Name -> Entry \cup {None}]
  /\ call \in [Caller -> CallState]
  /\ had \in [Caller -> SUBSET Content]

Pinned == {n \in Name : Pin[n] # None}

\* Nothing is deployed yet, so that every file has an mtime of its own.
Init ==
  /\ link \in [Name -> Path \cup {Outside, None}]
  /\ files = [p \in Path |-> None]
  /\ clock = 0
  /\ boot = [left |-> Pinned, state |-> "building"]
  /\ entries = [n \in Name |-> None]
  /\ call = [c \in Caller |-> NewCall]
  /\ had = [c \in Caller |-> {}]

-----------------------------------------------------------------------------

\* safe_path: a real path under the root, or why not.
Resolved(n) ==
  IF link[n] = Outside THEN "unsafe"
  ELSE IF link[n] = None \/ files[link[n]] = None THEN "missing" ELSE link[n]

\* Mutant: a pin is only checked when the cache is built.
VerifiedAtBootOnly(n, p) ==
  IF files[p] = None THEN "missing"
  ELSE IF boot.state = "building" /\ Pin[n] \notin {None, files[p].content} THEN "mismatch"
  ELSE files[p].content

\* read_verified: the bytes, if they are what the name is pinned to.
Verified(n, p) ==
  IF files[p] = None THEN "missing"
  ELSE IF Pin[n] \notin {None, files[p].content} THEN "mismatch"
  ELSE files[p].content

-----------------------------------------------------------------------------
(* Builder::build                                                            *)

\* One pinned file after the other, in the order of a HashMap.
VerifyPin(n) ==
  /\ boot.state = "building" /\ n \in boot.left
  /\ Resolved(n) \in Path /\ Verified(n, Resolved(n)) = Pin[n]
  /\ boot' = [boot EXCEPT !.left = @ \ {n}]
  /\ UNCHANGED <<link, files, clock, entries, call, had>>

\* A pinned file is missing, outside or not what the pin says.
Refuse(n) ==
  /\ boot.state = "building" /\ n \in boot.left
  /\ Resolved(n) \in Path => Verified(n, Resolved(n)) # Pin[n]
  /\ boot' = [boot EXCEPT !.state = "refused"]
  /\ UNCHANGED <<link, files, clock, entries, call, had>>

Built ==
  /\ boot.state = "building" /\ boot.left = {}
  /\ boot' = [boot EXCEPT !.state = "serving"]
  /\ UNCHANGED <<link, files, clock, entries, call, had>>

-----------------------------------------------------------------------------
(* AssetCache::static_file                                                   *)

Returns(c, r) ==
  /\ call' = [call EXCEPT ![c] = [NewCall EXCEPT !.result = r, !.name = call[c].name]]
  /\ UNCHANGED <<link, files, clock, boot>>

\* The name resolves; only its type tells a path from an error.
Begin(c, n) ==
  /\ boot.state = "serving" /\ call[c].pc = "idle"
  /\ IF Resolved(n) \in Path
     THEN /\ call' = [call EXCEPT ![c] = [NewCall EXCEPT !.pc = "stat", !.name = n,
                                                         !.path = Resolved(n)]]
          /\ had' = [had EXCEPT ![c] = {files[Resolved(n)].content}]
     ELSE /\ call' = [call EXCEPT ![c] = [NewCall EXCEPT !.name = n, !.result = Resolved(n)]]
          /\ had' = [had EXCEPT ![c] = {}]
  /\ UNCHANGED <<link, files, clock, boot, entries>>

Stat(c) ==
  /\ call[c].pc = "stat"
  /\ IF files[call[c].path] = None
     THEN Returns(c, "missing")
     ELSE /\ call' = [call EXCEPT ![c].pc = "lookup", ![c].mtime = files[call[c].path].mtime]
          /\ UNCHANGED <<link, files, clock, boot>>
  /\ UNCHANGED <<entries, had>>

Hit(c) ==
  LET entry == entries[call[c].name]
  IN  /\ call[c].pc = "lookup" /\ entry # None /\ entry.mtime = call[c].mtime
      /\ Returns(c, entry.bytes)
      /\ UNCHANGED <<entries, had>>

Miss(c) ==
  LET entry == entries[call[c].name]
  IN  /\ call[c].pc = "lookup" /\ (entry # None => entry.mtime # call[c].mtime)
      /\ call' = [call EXCEPT ![c].pc = "read"]
      /\ UNCHANGED <<link, files, clock, boot, entries, had>>

Read(c) ==
  LET bytes == Verified(call[c].name, call[c].path)
  IN  /\ call[c].pc = "read"
      /\ IF bytes \in Content
         THEN /\ call' = [call EXCEPT ![c].pc = "insert", ![c].bytes = bytes]
              /\ UNCHANGED <<link, files, clock, boot>>
         ELSE Returns(c, bytes)
      /\ UNCHANGED <<entries, had>>

\* Mutant: the entry is stamped with the mtime of the moment.
StampNow(c) == IF files[call[c].path] = None THEN call[c].mtime ELSE files[call[c].path].mtime

\* The stamp is the mtime taken before the bytes were read.
Stamp(c) == call[c].mtime

Insert(c) ==
  /\ call[c].pc = "insert"
  /\ entries' = [entries EXCEPT ![call[c].name] = [mtime |-> Stamp(c), bytes |-> call[c].bytes]]
  /\ Returns(c, call[c].bytes)
  /\ UNCHANGED had

-----------------------------------------------------------------------------
(* Whoever deploys files.                                                    *)

\* The mtime a write leaves; a coarse clock may not have moved since the last.
Stamps == {t \in Time : t = clock + 1 \/ (Coarse /\ t = clock)}

\* A file is replaced, or written in place: the empty content of a truncated
\* file is a Content like any other.
Write(p, content) ==
  /\ \E t \in Stamps :
       /\ files' = [files EXCEPT ![p] = [content |-> content, mtime |-> t]]
       /\ clock' = t
  /\ had' = [c \in Caller |-> IF call[c].path = p THEN had[c] \cup {content} ELSE had[c]]
  /\ UNCHANGED <<link, boot, entries, call>>

Delete(p) ==
  /\ files[p] # None
  /\ files' = [files EXCEPT ![p] = None]
  /\ UNCHANGED <<link, clock, boot, entries, call, had>>

\* A name comes to lead elsewhere: a symlink is replaced.
Relink(n, p) ==
  /\ link[n] # p
  /\ link' = [link EXCEPT ![n] = p]
  /\ UNCHANGED <<files, clock, boot, entries, call, had>>

StaticFile(c) == Stat(c) \/ Hit(c) \/ Miss(c) \/ Read(c) \/ Insert(c)

Next ==
  \/ \E n \in Name : VerifyPin(n) \/ Refuse(n)
  \/ Built
  \/ \E c \in Caller : StaticFile(c) \/ \E n \in Name : Begin(c, n)
  \/ \E p \in Path : Delete(p) \/ \E content \in Content : Write(p, content)
  \/ \E n \in Name, p \in Path \cup {Outside, None} : Relink(n, p)

Spec == Init /\ [][Next]_vars

-----------------------------------------------------------------------------

\* "Editing a served file on disk takes effect without a restart" (README.md):
\* what a call returns is a content the file has had since the call began,
\* whichever entries other calls store meanwhile.
ReadsAreCurrent == \A c \in Caller : call[c].result \in Content => call[c].result \in had[c]

\* A pinned name is answered with the pinned content or an error, through every
\* rewrite and whatever is cached ("at boot AND on every reload", README.md).
PinnedOrRefused ==
  \A c \in Caller : call[c].result \in Content /\ Pin[call[c].name] # None =>
                      call[c].result = Pin[call[c].name]

\* What is cached under a file's present mtime is its present content, so the
\* next call is right too: no race leaves an entry that stays wrong.
NoEntryStaysStale ==
  \A n \in Name, p \in Path :
    entries[n] # None /\ files[p] # None /\ entries[n].mtime = files[p].mtime =>
      entries[n].bytes = files[p].content

-----------------------------------------------------------------------------
(* The inductive invariant behind them, when no two writes leave the same    *)
(* mtime.                                                                    *)

PinAllows(n, bytes) == Pin[n] \in {None, bytes}

\* The call has the mtime of its file.
Statted(c) == call[c].pc \in {"lookup", "read", "insert"}

\* What the cache holds or is about to.
Pairs ==
  {e \in Entry : \/ \E n \in Name : entries[n] # None /\ entries[n] = e
                 \/ \E c \in Caller : /\ call[c].pc = "insert"
                                      /\ e = [mtime |-> call[c].mtime, bytes |-> call[c].bytes]}

\* An mtime is of one file at one time: of the latest write to it.
FilesApart ==
  /\ \A p \in Path : files[p] # None => files[p].mtime <= clock
  /\ \A p, q \in Path :
       files[p] # None /\ files[q] # None /\ files[p].mtime = files[q].mtime => p = q

\* Calls that found the same mtime found it on the same file.
CallsAgree ==
  \A c, d \in Caller :
    Statted(c) /\ Statted(d) /\ call[c].mtime = call[d].mtime => call[c].path = call[d].path

\* A pair agrees with a file that has its mtime, and with what a call that is
\* looking it up has seen.
PairsOK ==
  \A e \in Pairs :
    /\ e.mtime <= clock
    /\ \A p \in Path : files[p] # None /\ files[p].mtime = e.mtime => files[p].content = e.bytes
    /\ \A c \in Caller : call[c].pc = "lookup" /\ call[c].mtime = e.mtime => e.bytes \in had[c]

EntriesPinned == \A n \in Name : entries[n] # None => PinAllows(n, entries[n].bytes)

CallOK(c) ==
  /\ call[c].pc # "idle" =>
       /\ call[c].name \in Name /\ call[c].path \in Path
       /\ files[call[c].path] # None => files[call[c].path].content \in had[c]
  /\ Statted(c) =>
       /\ call[c].mtime <= clock
       /\ \A p \in Path : files[p] # None /\ files[p].mtime = call[c].mtime => p = call[c].path
  /\ call[c].pc = "insert" =>
       call[c].bytes \in Content \cap had[c] /\ PinAllows(call[c].name, call[c].bytes)
  /\ call[c].result \in Content =>
       call[c].result \in had[c] /\ PinAllows(call[c].name, call[c].result)

\* What pins need, whichever mtimes writes leave.
CallPinned(c) ==
  /\ call[c].pc # "idle" => call[c].name \in Name /\ call[c].path \in Path
  /\ call[c].pc = "insert" => call[c].bytes \in Content /\ PinAllows(call[c].name, call[c].bytes)
  /\ call[c].result \in Content =>
       call[c].name \in Name /\ PinAllows(call[c].name, call[c].result)

PinInv == TypeOK /\ EntriesPinned /\ \A c \in Caller : CallPinned(c)

IInv ==
  /\ TypeOK
  /\ FilesApart /\ CallsAgree /\ PairsOK /\ EntriesPinned
  /\ \A c \in Caller : CallOK(c)
=============================================================================
