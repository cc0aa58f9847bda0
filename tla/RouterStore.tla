----------------------------- MODULE RouterStore -----------------------------
(***************************************************************************)
(* The router descriptors and extra-info documents that a cache or client  *)
(* holds (routerlist.c), and how they are kept on disk: a store file that  *)
(* is mapped into memory and a journal that new documents are appended to, *)
(* rebuilt from time to time and read again after a restart.               *)
(*                                                                         *)
(* A crash or a failed call may come between any two file operations.  A   *)
(* rename that fails is left out: it leaves the store unmapped, and the    *)
(* program exits at the next read of a document that is only on disk.      *)
(* Documents are numbers in the order of their published times.  What the  *)
(* consensus does not list is young, or is past an age, all of it at once. *)
(* What it lists is safe at any age while the consensus is valid; when it  *)
(* has expired and no other came, the descriptors get old one by one.      *)
(* The program is no authority, fetches no version 2 networkstatuses and   *)
(* knows no bridges.                                                       *)
(***************************************************************************)
EXTENDS Naturals, Sequences, SequencesExt, FiniteSets, FiniteSetsExt

CONSTANTS
  Descs,       \* router descriptors, numbers
  Extras,      \* extra-info documents, other numbers
  Owner,       \* the router of each descriptor
  ExtraOf,     \* the extra-info document that each descriptor names, or Nil
  JournalMax,  \* how many documents a journal holds without a rebuild
  JournalEnd,  \* a bound: documents that a journal ever holds
  NotCached,   \* a bound: descriptors that a controller posts with cache=no
  MaxErrors,   \* a bound: file operations that fail and are survived
  Consensuses, \* the consensuses there may be: which descriptor each one lists of a router
  Nil

Routers == {Owner[d] : d \in Descs}
Items == Descs \cup Extras
Stores == {"desc", "extra"}

\* A document's number is its age's rank, from 1 on: 0 is what Torn stands for.
ASSUME StoreAssumption ==
  /\ Items \subseteq Nat \ {0} /\ Items # {} /\ IsFiniteSet(Items)
  /\ Descs \cap Extras = {} /\ Nil \notin Items
  /\ NotCached \subseteq Descs
  /\ Consensuses \subseteq [Routers -> Descs \cup {Nil}]
  /\ ExtraOf \in [Descs -> Extras \cup {Nil}]
  /\ JournalMax \in Nat /\ JournalEnd \in Nat \ {0} /\ MaxErrors \in Nat

VARIABLES
  caches,  \* directory_caches_dir_info: are old descriptors kept and served?
  listed,  \* per router, the descriptor that the consensus lists; or Nil for no consensus
  cutoff,  \* 0 while it is valid; then the last it lists older than OLD_ROUTER_DESC_MAX_AGE
  alive,   \* does the program run?
  errors,  \* how many file operations failed
  mem,     \* its routerlist_t
  disk     \* per store, the store file and the journal

vars == <<caches, listed, cutoff, alive, errors, mem, disk>>

\* byDigest: what desc_digest_map has for a descriptor, the entry in routers
\* or the one in old_routers.  saved and at: saved_location and _offset.
\* len: journal_len.  The store file is always mapped as it is.
Nothing ==
  [routers |-> [r \in Routers |-> Nil], old |-> {}, byDigest |-> [d \in Descs |-> "none"],
   byExtra |-> [e \in Extras |-> Nil], extras |-> {}, uncached |-> {},
   saved |-> [i \in Items |-> "nowhere"], at |-> [i \in Items |-> 0],
   len |-> [s \in Stores |-> 0], ok |-> TRUE]

Torn == 0    \* the part of a document that an append had written when the program died

Init ==
  /\ caches \in BOOLEAN
  /\ listed = Nil /\ cutoff = 0 /\ alive = TRUE /\ errors = 0 /\ mem = Nothing
  /\ disk = [s \in Stores |-> [file |-> <<>>, journal |-> <<>>]]

World == [mem |-> mem, disk |-> disk, alive |-> TRUE, errors |-> errors]
Failed(w) == {u \in {[w EXCEPT !.errors = @ + 1]} : u.errors <= MaxErrors}
Dead(w) == [w EXCEPT !.alive = FALSE, !.mem = Nothing]
Becomes(worlds) ==
  \E w \in worlds : mem' = w.mem /\ disk' = w.disk /\ alive' = w.alive /\ errors' = w.errors

Then(worlds, Op(_)) == UNION {IF w.alive THEN Op(w) ELSE {w} : w \in worlds}
Listed(d) == listed # Nil /\ listed[Owner[d]] = d
\* In the digest set retain, or with a last_listed_as_valid_until to come.
Retained(d) == Listed(d) /\ d > cutoff
StoreOf(i) == IF i \in Descs THEN "desc" ELSE "extra"
-----------------------------------------------------------------------------
(* The lists and maps.  m is a routerlist_t. *)

Check(m, p) == [m EXCEPT !.ok = @ /\ p]
Forgotten(m, i) == [m EXCEPT !.saved[i] = "nowhere", !.at[i] = 0, !.uncached = @ \ {i}]
\* eimap_remove and extrainfo_free.
WithoutExtra(m, e) == IF e \in m.extras THEN Forgotten([m EXCEPT !.extras = @ \ {e}], e) ELSE m
Names(m, d) == IF ExtraOf[d] = Nil THEN m ELSE [m EXCEPT !.byExtra[ExtraOf[d]] = d]
Unnames(m, d) == IF ExtraOf[d] = Nil THEN m ELSE [m EXCEPT !.byExtra[ExtraOf[d]] = Nil]

AsRouter(m, d) == Names([m EXCEPT !.routers[Owner[d]] = d, !.byDigest[d] = "router"], d)
AsOld(m, d) == Names([m EXCEPT !.old = @ \cup {d}, !.byDigest[d] = "old"], d)

\* routerlist_insert.
Insert(m, d) ==
  Check(AsRouter(m, d), m.routers[Owner[d]] = Nil /\ m.byDigest[d] = "none")

\* routerlist_insert_old.
InsertOld(m, d) == IF caches /\ m.byDigest[d] = "none" THEN AsOld(m, d) ELSE Forgotten(m, d)

\* routerlist_remove, with make_old.
RemoveRouter(m, d) ==
  LET out == Check([m EXCEPT !.routers[Owner[d]] = Nil], m.byDigest[d] = "router")
  IN  IF caches THEN AsOld(out, d)
      ELSE Forgotten(Unnames(WithoutExtra([out EXCEPT !.byDigest[d] = "none"], ExtraOf[d]), d), d)

\* routerlist_remove_old.
RemoveOld(m, d) ==
  LET out == Check([m EXCEPT !.old = @ \ {d}, !.byDigest[d] = "none"],
                   d \in m.old /\ m.byDigest[d] = "old")
  IN  Forgotten(Unnames(WithoutExtra(out, ExtraOf[d]), d), d)

\* Mutant: the digest of the one replaced stays in the map.
ReplaceRouter_KeepsDigest(m, d) ==
  LET o == m.routers[Owner[d]]
      in == Check(AsRouter(m, d), m.byDigest[d] = "none")
  IN  IF caches THEN AsOld(in, o)
      ELSE Forgotten(Unnames(IF ExtraOf[o] = ExtraOf[d] THEN in ELSE WithoutExtra(in, ExtraOf[o]), o), o)

\* routerlist_replace.  A second descriptor with the same extra-info digest
\* loses its entry in desc_by_eid_map with the first.
ReplaceRouter(m, d) ==
  LET o == m.routers[Owner[d]]
      in == Check(AsRouter(m, d), m.byDigest[d] = "none")
      out == [in EXCEPT !.byDigest[o] = "none"]
  IN  IF caches THEN AsOld(in, o)
      ELSE Forgotten(Unnames(IF ExtraOf[o] = ExtraOf[d] THEN out
                             ELSE WithoutExtra(out, ExtraOf[o]), o), o)
-----------------------------------------------------------------------------
(* The files. *)

\* signed_desc_append_to_journal: it works, or fails, or is cut short.
Append2Journal(w, i) ==
  LET s == StoreOf(i)
  IN  {[w EXCEPT !.disk[s].journal = Append(@, i), !.mem.saved[i] = "journal", !.mem.len[s] = @ + 1],
       Dead([w EXCEPT !.disk[s].journal = Append(@, Torn)])} \cup Failed(w)

Held(m, s) == IF s = "extra" THEN m.extras
              ELSE m.old \cup {m.routers[r] : r \in {q \in Routers : m.routers[q] # Nil}}

Those(q, X) == FoldLeft(LAMBDA out, i : IF i \in X THEN Append(out, i) ELSE out, <<>>, q)
Position(q, i) == SelectInSeq(q, LAMBDA k : k = i)

\* By published time, as _compare_signed_descriptors_by_age orders them.
Sorted(X) == Those([i \in 1..Max(Items) |-> i], X)

\* Mutant: the journal is cleared first.
Rebuilds_ClearsFirst(w, s) ==
  LET kept == Sorted(Held(w.mem, s) \ w.mem.uncached)
      cleared == [w EXCEPT !.disk[s].journal = <<>>]
      moved == [i \in Items |-> IF Contains(kept, i) THEN "cache" ELSE w.mem.saved[i]]
      offsets == [i \in Items |-> IF Contains(kept, i) THEN Position(kept, i)
                                  ELSE w.mem.at[i]]
      done == [cleared EXCEPT !.disk[s].file = kept, !.mem.len[s] = 0,
                              !.mem.saved = moved, !.mem.at = offsets]
  IN  {Dead(cleared), done} \cup Failed(w)

\* Mutant: what must not be cached counts in the offsets.
Rebuilds_CountsAll(w, s) ==
  LET all == Sorted(Held(w.mem, s))
      kept == Those(all, Items \ w.mem.uncached)
      replaced == [w EXCEPT !.disk[s].file = kept]
      moved == [i \in Items |-> IF Contains(kept, i) THEN "cache" ELSE w.mem.saved[i]]
      offsets == [i \in Items |-> IF Contains(kept, i) THEN Position(all, i)
                                  ELSE w.mem.at[i]]
      done == [replaced EXCEPT !.mem.len[s] = 0,
                               !.mem.saved = moved, !.mem.at = offsets]
  IN  {Dead(replaced), [done EXCEPT !.disk[s].journal = <<>>]} \cup Failed(w) \cup Failed(done)

\* The second half of router_rebuild_store.  The temporary file may fail to
\* be written; the program may die when the new store is in place, also
\* because it cannot be mapped; the journal may fail to be cleared.
Rebuilds(w, s) ==
  LET kept == Sorted(Held(w.mem, s) \ w.mem.uncached)
      replaced == [w EXCEPT !.disk[s].file = kept]
      moved == [i \in Items |-> IF Contains(kept, i) THEN "cache" ELSE w.mem.saved[i]]
      offsets == [i \in Items |-> IF Contains(kept, i) THEN Position(kept, i)
                                  ELSE w.mem.at[i]]
      done == [replaced EXCEPT !.mem.len[s] = 0,
                               !.mem.saved = moved, !.mem.at = offsets]
  IN  {Dead(replaced), [done EXCEPT !.disk[s].journal = <<>>]} \cup Failed(w) \cup Failed(done)

Room(s) == Len(disk[s].journal) < JournalEnd

\* router_rebuild_store with RRS_DONT_REMOVE_OLD.
Tidied(w, s) == IF w.mem.len[s] > JournalMax THEN Rebuilds(w, s) ELSE {w}

\* The extra descriptors of one router that a prune drops.
Surplus(m) ==
  LET allowed == IF caches THEN 2 ELSE 1
      mine(r) == {d \in m.old : Owner[d] = r}
      Drops(r) == LET may == {d \in mine(r) : ~Retained(d)}
                      n == IF Cardinality(mine(r)) > allowed THEN Cardinality(mine(r)) - allowed ELSE 0
                  IN  {X \in SUBSET may : Cardinality(X) = IF n < Cardinality(may) THEN n
                                                            ELSE Cardinality(may)}
  IN  IF Cardinality(m.old) < Cardinality({r \in Routers : m.routers[r] # Nil}) THEN {{}}
      ELSE {X \in SUBSET m.old : \A r \in Routers : X \cap mine(r) \in Drops(r)}

RemoveRouters(m, X) == FoldSet(LAMBDA d, n : RemoveRouter(n, d), m, X)
RemoveAllOld(m, X) == FoldSet(LAMBDA d, n : RemoveOld(n, d), m, X)

\* routerlist_remove_old_routers.  Of what is not listed, nothing is old, or
\* all of it is past ROUTER_MAX_AGE, or past OLD_ROUTER_DESC_MAX_AGE.
RemoveOldRouters(w) ==
  LET Late(X, past) == {d \in X : ~Retained(d) /\ (past \/ d <= cutoff)}
      Aged(age) ==
        LET m == RemoveRouters(w.mem, Late(Held(w.mem, "desc") \ w.mem.old, age # "young"))
        IN  RemoveAllOld(m, Late(m.old, age = "old"))
      Pruned(m) == {RemoveAllOld(m, X) : X \in Surplus(m)}
      left == {[w EXCEPT !.mem = m] :
                 m \in UNION {Pruned(Aged(age)) : age \in {"young", "aged", "old"}}}
  IN  IF listed = Nil THEN {w}
      ELSE Then(Then(left, LAMBDA u : Tidied(u, "desc")), LAMBDA u : Tidied(u, "extra"))

\* router_rebuild_store without that flag.  The forced one, at startup, is
\* taken to succeed or to die: were part of a document left in the journal,
\* the next one would be read as its end.
Rebuild(w, s, force) ==
  IF force \/ w.mem.len[s] > JournalMax
    THEN Then(RemoveOldRouters(w), LAMBDA u :
                {v \in Rebuilds(u, s) : force => ~v.alive \/ v.disk[s].journal = <<>>})
  ELSE {w}
-----------------------------------------------------------------------------
(* Documents that arrive. *)

\* A descriptor that is only kept to be served.
Aside(w, d, fromCache) ==
  Then(IF caches /\ ~fromCache THEN Append2Journal(w, d) ELSE {w},
       LAMBDA u : {[u EXCEPT !.mem = InsertOld(@, d)]})

\* router_add_to_routerlist.  reallyOld: older than OLD_ROUTER_DESC_MAX_AGE.
AddRouter(w, d, fromCache, fromFetch, reallyOld) ==
  LET now == w.mem.routers[Owner[d]]
      Journaled(m) == LET u == [w EXCEPT !.mem = m]
                      IN  IF fromCache THEN {u} ELSE Append2Journal(u, d)
  IN  IF w.mem.byDigest[d] # "none" THEN {w}
      ELSE IF ~Listed(d) /\ (fromFetch \/ listed # Nil \/ (now # Nil /\ d <= now))
        THEN Aside(w, d, fromCache)
      ELSE IF now # Nil THEN Journaled(ReplaceRouter(w.mem, d))
      ELSE IF ~Listed(d) /\ fromCache /\ reallyOld THEN {[w EXCEPT !.mem = Forgotten(@, d)]}
      ELSE Journaled(Insert(w.mem, d))

\* routerinfo_incompatible_with_extrainfo: a document belongs to the first of
\* the descriptors that name it.
Belongs(e, d) == ExtraOf[d] = e /\ \A o \in Descs : ExtraOf[o] = e => d <= o

\* extrainfo_insert and router_add_extrainfo_to_routerlist; place and offset
\* say where the document was read from.
AddExtra(w, e, place, offset) ==
  LET router == w.mem.routers[Owner[CHOOSE d \in Descs : Belongs(e, d)]]
      namer == IF w.mem.byExtra[e] # Nil THEN w.mem.byExtra[e] ELSE router
      in == [w EXCEPT !.mem.extras = @ \cup {e}, !.mem.saved[e] = place, !.mem.at[e] = offset]
  IN  IF router = Nil \/ ~Belongs(e, namer) THEN {w}
      ELSE IF place # "nowhere" THEN {in} ELSE Append2Journal(in, e)

\* A directory's answer: router_load_routers_from_string.
Fetch(d) ==
  /\ alive /\ Room("desc")
  /\ Becomes(Then(AddRouter(World, d, FALSE, TRUE, FALSE),
                  LAMBDA u : IF u.mem.routers[Owner[d]] = d /\ mem.routers[Owner[d]] # d
                               THEN Rebuild(u, "desc", FALSE) ELSE {u}))
  /\ UNCHANGED <<caches, listed, cutoff>>

\* The controller's POSTDESCRIPTOR: router_load_single_router.
Post(d, cache) ==
  LET w == IF cache \/ mem.byDigest[d] # "none" THEN World
           ELSE [World EXCEPT !.mem.uncached = @ \cup {d}]
  IN  /\ alive /\ Room("desc")
      /\ Becomes(AddRouter(w, d, FALSE, FALSE, FALSE))
      /\ UNCHANGED <<caches, listed, cutoff>>

\* router_load_extrainfo_from_string.
FetchExtra(e) ==
  /\ alive /\ e \notin mem.extras /\ Room("extra")
  /\ Becomes(Then(AddExtra(World, e, "nowhere", 0), LAMBDA u : Rebuild(u, "extra", FALSE)))
  /\ UNCHANGED <<caches, listed, cutoff>>

\* The hourly call in run_scheduled_events.
Hourly == alive /\ Becomes(RemoveOldRouters(World)) /\ UNCHANGED <<caches, listed, cutoff>>

\* A new consensus: networkstatus_set_current_consensus.
Consensus(c) ==
  /\ alive /\ (c # listed \/ cutoff > 0)
  /\ listed' = c /\ cutoff' = 0
  /\ UNCHANGED <<caches, alive, errors, mem, disk>>

\* The consensus has expired, and is still what
\* networkstatus_get_latest_consensus returns; more descriptors are old.
Ages ==
  /\ listed # Nil
  /\ \E d \in Descs : Retained(d) /\ cutoff' = d
  /\ UNCHANGED <<caches, listed, alive, errors, mem, disk>>

\* It expired so long ago that the next start will not accept it.
Discarded ==
  /\ ~alive /\ listed # Nil /\ \A d \in Descs : ~Retained(d)
  /\ listed' = Nil /\ cutoff' = 0
  /\ UNCHANGED <<caches, alive, errors, mem, disk>>

Crash == alive /\ Becomes({Dead(World)}) /\ UNCHANGED <<caches, listed, cutoff>>

\* Mutant: the documents in the journal are not looked at.
Journal_Ignored(s) == <<>>
Journal(s) == Those(disk[s].journal, Items)

\* A document that is read from a file, unless it is known already.
Loaded(w, i, place, offset, reallyOld) ==
  IF i \in Extras THEN AddExtra(w, i, place, offset)
  ELSE IF w.mem.byDigest[i] # "none" THEN {w}
  ELSE AddRouter([w EXCEPT !.mem.saved[i] = place, !.mem.at[i] = offset], i, TRUE, FALSE, reallyOld)
Load(worlds, file, place, reallyOld) ==
  FoldLeftDomain(LAMBDA ws, k :
                   UNION {Loaded(u, file[k], place, IF place = "cache" THEN k ELSE 0, reallyOld) : u \in ws},
                 worlds, file)

\* router_reload_router_list_impl.  What is on disk is parsed, and the part
\* of a document is skipped.
Reloaded(w, s, reallyOld) ==
  LET read == Load(Load({w}, disk[s].file, "cache", reallyOld), Journal(s), "journal", reallyOld)
  IN  IF disk[s].journal # <<>>
        THEN UNION {Rebuild([u EXCEPT !.mem.len[s] = Len(disk[s].journal)], s, TRUE) : u \in read}
      ELSE IF s = "desc" THEN UNION {RemoveOldRouters(u) : u \in read}
      ELSE read

\* router_reload_router_list.
Restart ==
  /\ ~alive
  /\ \E reallyOld \in BOOLEAN :
       Becomes(Then(Reloaded(World, "desc", reallyOld), LAMBDA u : Reloaded(u, "extra", reallyOld)))
  /\ UNCHANGED <<caches, listed, cutoff>>

Next ==
  \/ \E d \in Descs : Fetch(d) \/ Post(d, TRUE)
  \/ \E d \in NotCached : Post(d, FALSE)
  \/ \E e \in Extras : FetchExtra(e)
  \/ \E c \in Consensuses : Consensus(c)
  \/ Ages \/ Discarded \/ Hourly \/ Crash \/ Restart
Spec == Init /\ [][Next]_vars
-----------------------------------------------------------------------------
TypeOK ==
  /\ caches \in BOOLEAN /\ alive \in BOOLEAN /\ listed \in Consensuses \cup {Nil}
  /\ cutoff \in Descs \cup {0}
  /\ mem.routers \in [Routers -> Descs \cup {Nil}] /\ mem.old \subseteq Descs
  /\ mem.byDigest \in [Descs -> {"none", "router", "old"}]
  /\ mem.byExtra \in [Extras -> Descs \cup {Nil}] /\ mem.extras \subseteq Extras
  /\ mem.saved \in [Items -> {"nowhere", "journal", "cache"}] /\ mem.at \in [Items -> Nat]
  /\ \A s \in Stores : disk[s].file \in Seq(Items) /\ disk[s].journal \in Seq(Items \cup {Torn})

\* What routerlist_assert_ok asserts after every batch of documents: routers,
\* old_routers and the three maps describe one set of descriptors.
MapsSound ==
  /\ mem.ok
  /\ \A d \in Descs : /\ mem.byDigest[d] = "router" <=> mem.routers[Owner[d]] = d
                      /\ mem.byDigest[d] = "old" <=> d \in mem.old
  /\ \A e \in Extras : mem.byExtra[e] # Nil => ExtraOf[mem.byExtra[e]] = e
  /\ ~caches => mem.old = {}

\* Whatever is said to be in the store file is there, at its offset in the
\* mapping: nobody is served another router's descriptor.
BodiesRight ==
  \A i \in Items : mem.saved[i] = "cache" =>
    LET bytes == disk[StoreOf(i)].file IN mem.at[i] \in DOMAIN bytes /\ bytes[mem.at[i]] = i

OnDisk(i) == Contains(disk[StoreOf(i)].file, i) \/ Contains(disk[StoreOf(i)].journal, i)
Saved(s) == {i \in Held(mem, s) \ mem.uncached : mem.saved[i] # "nowhere"}

\* A document that was saved, and is still held, is on disk; and a descriptor
\* that the consensus lists, while the consensus is valid or the descriptor
\* is not older than OLD_ROUTER_DESC_MAX_AGE, stays there whatever file
\* operation the program dies after.
SavedStays ==
  /\ [](\A s \in Stores : \A i \in Saved(s) : OnDisk(i))
  /\ [][\A d \in Saved("desc") : Retained(d) => OnDisk(d)']_vars

\* A restart finds such a descriptor of every router that is on disk.
ComesBack ==
  [][Restart /\ alive' =>
       \A d \in Descs : Retained(d) /\ OnDisk(d) => mem'.routers[Owner[d]] = d]_vars
=============================================================================
