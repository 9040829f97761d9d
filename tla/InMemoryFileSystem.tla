------------------------- MODULE InMemoryFileSystem -------------------------
(***************************************************************************)
(* The file system in memory that a Core ML model travels in, from         *)
(* backends/apple/coreml/runtime/inmemoryfs, with the reader of its        *)
(* metadata from runtime/util/json_util.cpp.                               *)
(*                                                                         *)
(* A file system is a function from paths to nodes; a path is the sequence *)
(* of the keys of the nodes below the root.  The contents of a file are a  *)
(* value with a size, those that a mapped file had when it was opened.     *)
(* The items of directories are iterated in some order of the names.       *)
(* Attributes, and files of no bytes, are left out.  The callers do not go *)
(* through a file as if it were a directory, nor remove an item of a       *)
(* directory that is not there.                                            *)
(***************************************************************************)
EXTENDS Integers, Sequences, SequencesExt, FiniteSets, FiniteSetsExt

CONSTANTS
  Names,         \* names of items
  Bytes,         \* the contents of files, with the size of each
  Directories,   \* what the disk may hold at first
  PageSize,      \* getpagesize()
  FsAlignments,  \* alignments to serialize with
  PyHeader,      \* offsetof(PyBytesObject, ob_sval)
  LargeModel,    \* large_model_size_threshold
  Texts,         \* texts of metadata: sequences of characters
  ChunkSize,     \* buffer_size of read_object_from_stream
  MaxRead,       \* max_bytes_to_read
  Targets,       \* directories to write to
  MaxFsCalls     \* bound on the calls

VARIABLES
  tree,     \* the file system
  volume,   \* the directory on disk: path to contents, or Dir
  blob,     \* serialized bytes, in a sequence of at most one
  reader,   \* a call of read_object_from_stream, in a sequence of at most one
  fcalls    \* number of calls made

FsVars == <<tree, volume, blob, reader, fcalls>>

Dir == "directory"
Torn == "torn"     \* what is left of a file when a write fails, or is read from elsewhere
RootName == "root"
VolumeName == "volume"

-----------------------------------------------------------------------------
(* Nodes *)

Directory(name) == [kind |-> Dir, name |-> name, data |-> Dir, lazy |-> FALSE]
File(name, data, lazy) == [kind |-> "file", name |-> name, data |-> data, lazy |-> lazy]
IsFile(t, p) == p \in DOMAIN t /\ t[p].kind = "file"
NewFs(name) == [p \in {<<>>} |-> Directory(name)]

Below(t, p) == {q \in DOMAIN t : IsPrefix(p, q)}
From(p, q) == SubSeq(q, Len(p) + 1, Len(q))
Children(t, p) == {q \in DOMAIN t : Len(q) = Len(p) + 1 /\ IsPrefix(p, q)}
Without1(t, p) == [q \in DOMAIN t \ Below(t, p) |-> t[q]]
Subtree(t, p) == [q \in {From(p, x) : x \in Below(t, p)} |-> t[p \o q]]

\* get_node() takes every node on the way for a directory.
Walkable(t, p) == \A q \in Prefixes(p) \ {p} : ~IsFile(t, q)

make_directory(t, p, intermediate) ==
  LET missing == Prefixes(p) \ DOMAIN t
  IN  IF \/ p = <<>> \/ \E q \in Prefixes(p) : IsFile(t, q)
         \/ ~intermediate /\ ~(missing \subseteq {p})
      THEN t
      ELSE [q \in DOMAIN t \cup missing |-> IF q \in missing THEN Directory(Last(q)) ELSE t[q]]

\* A file takes the place of what is there, a directory with all its items included.
make_file(t, p, data, overwrite) ==
  IF p = <<>> \/ Front(p) \notin DOMAIN t \/ IsFile(t, Front(p)) \/ (p \in DOMAIN t /\ ~overwrite) THEN t
  ELSE [q \in (DOMAIN t \ Below(t, p)) \cup {p} |-> IF q = p THEN File(Last(p), data, FALSE) ELSE t[q]]

remove_item(t, p) == IF p = <<>> \/ p \notin DOMAIN t THEN t ELSE Without1(t, p)

Moved(t, old, new) ==
  [q \in (DOMAIN t \ Below(t, old)) \cup {new \o From(old, x) : x \in Below(t, old)} |->
     IF IsPrefix(new, q) THEN t[old \o From(new, q)] ELSE t[q]]

\* The directory moves the item it has under the node's name, which the node keeps:
\* the second time an item is renamed, none is found.
rename_item(t, p, name) ==
  IF p \notin DOMAIN t THEN t
  ELSE IF p = <<>> THEN [t EXCEPT ![p].name = name]
  ELSE LET old == Append(Front(p), t[p].name)
           new == Append(Front(p), name)
       IN  IF new \in DOMAIN t \/ old \notin DOMAIN t THEN t ELSE Moved(t, old, new)

-----------------------------------------------------------------------------
(* Files on disk *)

\* Items in the order of an iteration, before or after the ones inside them.
Ahead(order, p, q) ==
  \E i \in 1 .. Len(p) :
    i <= Len(q) /\ SubSeq(p, 1, i - 1) = SubSeq(q, 1, i - 1) /\ order[p[i]] < order[q[i]]

InOrder(S, order, outer) ==
  LET Rank(q) == Cardinality({p \in S : Ahead(order, p, q) \/ IF outer THEN IsStrictPrefix(p, q) ELSE IsStrictPrefix(q, p)})
  IN  [i \in 1 .. Cardinality(S) |-> CHOOSE q \in S : Rank(q) = i - 1]

\* The path that the names of the nodes give the item q when p is written.
Target(t, p, q) == [i \in 1 .. Len(q) - Len(p) + 1 |-> t[SubSeq(q, 1, Len(p) + i - 1)].name]

Put1(f, k, v) == [x \in DOMAIN f \cup {k} |-> IF x = k THEN v ELSE f[x]]

\* write_node(): the state after one more item.  A directory that is there is an error;
\* so is a file of bad, which is opened or not before that.
write_node(t, p, dst, bad, opened, w, q) ==
  LET to == dst \o Target(t, p, q)
      inside == Front(to) \in DOMAIN w.volume /\ w.volume[Front(to)] = Dir
      taken == to \in DOMAIN w.volume /\ (~IsFile(t, q) \/ w.volume[to] = Dir)
  IN  IF ~w.ok \/ ~inside \/ taken \/ (q \in bad /\ ~(opened /\ IsFile(t, q))) THEN [w EXCEPT !.ok = FALSE]
      ELSE [ok |-> q \notin bad, volume |-> Put1(w.volume, to, IF q \in bad THEN Torn ELSE t[q].data)]

\* After a failure the code removes the path that ends with the name of the root: the
\* two strings are joined as they are, and what was written stays unless the path of
\* the directory ends with a slash.
write_item_to_disk(t, p, dst, recursive, order, bad, opened, slash, v) ==
  LET items == IF recursive THEN Below(t, p) ELSE {p} \cup {q \in Children(t, p) : IsFile(t, q)}
      Step(w, q) == write_node(t, p, dst, bad, opened, w, q)
      w == FoldLeft(Step, [ok |-> TRUE, volume |-> v], InOrder(items, order, TRUE))
  IN  IF dst \notin DOMAIN v \/ p \notin DOMAIN t THEN [ok |-> FALSE, volume |-> v]
      ELSE IF ~w.ok /\ slash THEN [w EXCEPT !.volume = Without1(@, Append(dst, t[<<>>].name))]
      ELSE w

\* The error of a file that cannot be read stays set: that file, and all that come
\* after it, are left out of the file system.
Unread(v, order, bad) ==
  {x \in DOMAIN v : v[x] # Dir /\ \E y \in bad : x = y \/ Ahead(order, y, x)}

make_directory_node(v, p, order, bad, lazy, name) ==
  [q \in {From(p, x) : x \in Below(v, p) \ Unread(v, order, bad)} |->
     LET called == IF q = <<>> THEN name ELSE Last(q)
     IN  IF v[p \o q] = Dir THEN Directory(called) ELSE File(called, v[p \o q], lazy)]

\* The file systems this may return: one, or none.
make_from_directory(v, p, order, bad, lazy) ==
  LET name == IF p = <<>> THEN VolumeName ELSE Last(p)
  IN  IF p \notin DOMAIN v \/ (p \in bad /\ v[p] # Dir) THEN {}
      ELSE IF v[p] = Dir THEN {make_directory_node(v, p, order, bad, lazy, name)}
      ELSE {Put1(NewFs(RootName), <<name>>, File(name, v[p], lazy))}

-----------------------------------------------------------------------------
(* Serialization *)

align(length, alignment) == ((length + alignment - 1) \div alignment) * alignment
Range1(offset, size) == [offset |-> offset, size |-> size]
End(r) == r.offset + r.size
FileNodes(nodes) == {i \in DOMAIN nodes : nodes[i].kind = "file"}

\* Mutant of next_offset_to_write: the size of the last file, and not where it ends.
next_offset_by_size(nodes) ==
  IF FileNodes(nodes) = {} THEN 0 ELSE nodes[Max(FileNodes(nodes))].region.size

next_offset_to_write(nodes) ==
  IF FileNodes(nodes) = {} THEN 0 ELSE End(nodes[Max(FileNodes(nodes))].region)

\* populate(): the items of a directory, then the directory, which has their numbers.
flatten(t, order, alignment) ==
  LET paths == InOrder(DOMAIN t, order, FALSE)
      Number(q) == CHOOSE i \in DOMAIN paths : paths[i] = q
      Populate(nodes, q) ==
        Append(nodes,
          [kind |-> t[q].kind, name |-> t[q].name, data |-> t[q].data, lazy |-> t[q].lazy,
           region |-> IF IsFile(t, q) THEN Range1(align(next_offset_to_write(nodes), alignment), Bytes[t[q].data])
                      ELSE Range1(0, 0),
           children |-> [k \in {Last(c) : c \in Children(t, q)} |-> Number(Append(q, k))]])
  IN  FoldLeft(Populate, <<>>, paths)

get_metadatas(nodes) ==
  [i \in DOMAIN nodes |-> [kind |-> nodes[i].kind, name |-> nodes[i].name, region |-> nodes[i].region,
                           children |-> nodes[i].children]]

\* The length of the JSON text grows with the digits of its numbers.
Digits(n) == CASE n < 10 -> 1 [] n \in 10 .. 99 -> 2 [] n > 99 -> 3
TextLength(nodes) ==
  2 + FoldLeft(LAMBDA sum, n : sum + 2 + Digits(n.region.offset) + Digits(n.region.size), 0, nodes)

\* A buffer that is mapped lazily goes to an address at a page: get_offset_range() says
\* how far that may be, get_revised_range_for_writing() where it is.
get_offset_range(lazy, offset) == IF lazy THEN offset + PageSize - 1 ELSE offset
get_revised_range_for_writing(lazy, dst, offset) ==
  IF lazy THEN align(dst + offset, PageSize) - dst ELSE offset

get_buffer_size_for_serialization(nodes, alignment) ==
  LET Step(w, n) ==
        IF n.kind # "file" THEN [w EXCEPT !.nodes = Append(@, n)]
        ELSE LET offset == get_offset_range(n.lazy, n.region.offset + w.change)
             IN  [nodes |-> Append(w.nodes, [n EXCEPT !.region.offset = offset]),
                  change |-> w.change + offset - n.region.offset,
                  length |-> offset + n.region.size]
      w == FoldLeft(Step, [nodes |-> <<>>, change |-> 0, length |-> 0], nodes)
  IN  align(w.length, alignment) + TextLength(w.nodes)

\* serialize() to memory: the nodes with the regions they were written to, and where
\* the metadata goes.
serialize(nodes, alignment, dst) ==
  LET Step(w, n) ==
        IF n.kind # "file" THEN [w EXCEPT !.nodes = Append(@, n)]
        ELSE LET offset == get_revised_range_for_writing(n.lazy, dst, n.region.offset + w.change)
             IN  [nodes |-> Append(w.nodes, [n EXCEPT !.region.offset = offset]),
                  change |-> w.change + offset - n.region.offset,
                  pos |-> Max({w.pos, offset + n.region.size})]
      w == FoldLeft(Step, [nodes |-> <<>>, change |-> 0, pos |-> 0], nodes)
  IN  [nodes |-> w.nodes, at |-> align(w.pos, alignment)]

\* serialize() to a stream
serialize_to_stream(nodes, alignment) ==
  [nodes |-> nodes,
   at |-> align(FoldLeft(LAMBDA pos, n : IF n.kind = "file" THEN Max({pos, End(n.region)}) ELSE pos, 0, nodes), alignment)]

Overlap(r, s) == r.offset < End(s) /\ s.offset < End(r)
Metadata(s) == Range1(s.at, TextLength(s.nodes))

\* write() of a lazy buffer maps whole pages, that can only be read: what is copied
\* to them later ends the process.
WritesToMapped(s) ==
  \E i \in FileNodes(s.nodes) :
    LET mapped == Range1(s.nodes[i].region.offset, align(s.nodes[i].region.size, PageSize))
    IN  /\ s.nodes[i].lazy
        /\ \/ Overlap(mapped, Metadata(s))
           \/ \E j \in FileNodes(s.nodes) : j > i /\ ~s.nodes[j].lazy /\ Overlap(mapped, s.nodes[j].region)

\* The bytes: where each file's contents are, the metadata and its place, how many were
\* asked for and how many there are, and what they were made from and with.
Serialized(t, s, room, size, alignment, dst) ==
  [of |-> t, room |-> room, size |-> size, alignment |-> alignment, dst |-> dst,
   place |-> Metadata(s), metadata |-> get_metadatas(s.nodes), crashed |-> WritesToMapped(s),
   stored |-> {[region |-> s.nodes[i].region, data |-> s.nodes[i].data] : i \in FileNodes(s.nodes)}]

InMemory(t, order, alignment, dst, size) ==
  LET nodes == flatten(t, order, alignment)
  IN  Serialized(t, serialize(nodes, alignment, dst), get_buffer_size_for_serialization(nodes, alignment), size, alignment, dst)

InStream(t, order, alignment) ==
  LET s == serialize_to_stream(flatten(t, order, alignment), alignment)
  IN  [Serialized(t, s, End(Metadata(s)), End(Metadata(s)), alignment, 0) EXCEPT !.crashed = FALSE]

\* slice(): what the bytes of a region are
slice(b, r) ==
  LET there == {s \in b.stored : Overlap(s.region, r)}
  IN  IF \E s \in there : there = {s} /\ s.region = r /\ ~Overlap(r, b.place)
      THEN (CHOOSE s \in there : TRUE).data ELSE Torn

\* The tree of each node, from those of its items, which come before it
unflatten(nodes, b) ==
  LET Build(built, n) ==
        Append(built,
          IF n.kind = "file" THEN [q \in {<<>>} |-> File(n.name, slice(b, n.region), FALSE)]
          ELSE [q \in {<<>>} \cup UNION {{<<k>> \o x : x \in DOMAIN built[n.children[k]]} : k \in DOMAIN n.children} |->
                  IF q = <<>> THEN Directory(n.name) ELSE built[n.children[q[1]]][Tail(q)]])
  IN  Last(FoldLeft(Build, <<>>, nodes))

\* The metadata is read from the end of the bytes, where the zeros are skipped.
make_from_buffer(b) ==
  IF \E n \in ToSet(b.metadata) : n.kind = "file" /\ End(n.region) > b.size THEN {}
  ELSE {unflatten(b.metadata, b)}

-----------------------------------------------------------------------------
(* Reading the metadata: the first object of a text, by chunks *)

\* is_quote_escaped() looks back inside the chunk only.
Escaped(chunk, i) == i > 1 /\ chunk[i - 1] = "escape"

\* read_object_from_buffer()
read_object_from_buffer(chunk, r) ==
  LET Step(s, i) ==
        IF s.open = 0 THEN s
        ELSE LET c == chunk[i]
             IN  [open |-> CASE s.quoted \/ c \notin {"{", "}"} -> s.open
                             [] ~s.quoted /\ c = "{" -> s.open + 1
                             [] ~s.quoted /\ c = "}" -> s.open - 1,
                  quoted |-> IF c = "quote" /\ ~(s.quoted /\ Escaped(chunk, i)) THEN ~s.quoted ELSE s.quoted,
                  object |-> Append(s.object, c)]
  IN  FoldLeft(Step, [open |-> r.open, quoted |-> r.quoted, object |-> r.object], [i \in DOMAIN chunk |-> i])

\* The text is written back to front, behind the files, and read from the end of the
\* bytes, where there may be zeros.
serialize_metadata(text) == Reverse(text)
ReversedIMemoryStream(bytes) == Reverse(bytes)

Starts(text) == {i \in DOMAIN text : text[i] # "0"}

NewReader(text) ==
  LET first == IF Starts(text) = {} THEN Len(text) ELSE Min(Starts(text))
  IN  [text |-> text, next |-> first + 1, good |-> text[first] = "{", quoted |-> FALSE,
       open |-> IF text[first] = "{" THEN 1 ELSE 0,
       object |-> IF text[first] = "{" THEN <<"{">> ELSE <<>>]

Reading == reader # <<>> /\ reader[1].good /\ reader[1].open > 0 /\ Len(reader[1].object) < MaxRead

\* A round of read_object_from_stream(); past the end the chunk is zeros.
ReadChunk ==
  /\ Reading
  /\ LET r == reader[1]
         chunk == [i \in 1 .. ChunkSize |-> IF r.next + i - 1 <= Len(r.text) THEN r.text[r.next + i - 1] ELSE "0"]
         s == read_object_from_buffer(chunk, r)
     IN  reader' = <<[r EXCEPT !.next = @ + ChunkSize, !.good = r.next + ChunkSize - 1 <= Len(r.text),
                               !.open = s.open, !.quoted = s.quoted, !.object = s.object]>>
  /\ UNCHANGED <<tree, volume, blob, fcalls>>

-----------------------------------------------------------------------------
(* Calls *)

Paths == UNION {[1 .. n -> Names] : n \in 0 .. 2}
\* A root that was written to disk comes first among the items of its directory.
Orders ==
  {[n \in Names \cup {RootName, VolumeName} |-> IF n \in Names THEN f[n] ELSE IF n = RootName THEN 0 ELSE -1] :
     f \in Bijection(Names, 1 .. Cardinality(Names))}
Faulty(S) == {{}} \cup {{x} : x \in S}

Call ==
  /\ reader = <<>> /\ blob = <<>> /\ fcalls < MaxFsCalls
  /\ fcalls' = fcalls + 1

MakeDirectory ==
  /\ Call /\ UNCHANGED <<volume, blob, reader>>
  /\ \E p \in Paths, intermediate \in BOOLEAN : tree' = make_directory(tree, p, intermediate)

MakeFile ==
  /\ Call /\ UNCHANGED <<volume, blob, reader>>
  /\ \E p \in Paths, data \in DOMAIN Bytes \ {Torn}, overwrite \in BOOLEAN :
       /\ p # <<>> => Walkable(tree, Front(p))
       /\ tree' = make_file(tree, p, data, overwrite)

RemoveItem ==
  /\ Call /\ UNCHANGED <<volume, blob, reader>>
  /\ \E p \in Paths :
       /\ p # <<>> => Front(p) \in DOMAIN tree
       /\ tree' = remove_item(tree, p)

RenameItem ==
  /\ Call /\ UNCHANGED <<volume, blob, reader>>
  /\ \E p \in Paths, name \in Names : Walkable(tree, p) /\ tree' = rename_item(tree, p, name)

WriteToDisk ==
  /\ Call /\ UNCHANGED <<tree, blob, reader>>
  /\ \E p \in Paths, dst \in Targets, recursive, opened, slash \in BOOLEAN, order \in Orders, bad \in Faulty(DOMAIN tree) :
       /\ Walkable(tree, p)
       /\ volume' = write_item_to_disk(tree, p, dst, recursive, order, bad, opened, slash, volume).volume

\* A call that fails returns no file system: the caller keeps the one it had.
LoadDirectory ==
  /\ Call /\ UNCHANGED <<volume, blob, reader>>
  /\ \E p \in Paths, order \in Orders, bad \in Faulty(DOMAIN volume), lazy \in BOOLEAN :
       LET made == make_from_directory(volume, p, order, bad, lazy)
       IN  tree' \in IF made = {} THEN {tree} ELSE made

\* A call with a path that is not there writes nothing.
Serialize ==
  /\ Call /\ UNCHANGED <<tree, volume, reader>>
  /\ \E p \in Paths, order \in Orders, alignment \in FsAlignments :
       /\ Walkable(tree, p)
       /\ \/ p \notin DOMAIN tree /\ UNCHANGED blob
          \/ p \in DOMAIN tree /\ blob' = <<InStream(Subtree(tree, p), order, alignment)>>
          \/ /\ p \in DOMAIN tree
             /\ \E dst \in {0, PyHeader} :
                  LET t == Subtree(tree, p)
                      size == get_buffer_size_for_serialization(flatten(t, order, alignment), alignment)
                  IN  blob' = <<InMemory(t, order, alignment, dst, size)>>

Deserialize ==
  /\ blob # <<>> /\ ~blob[1].crashed
  /\ LET made == {t \in make_from_buffer(blob[1]) : ~IsFile(t, <<>>)}
     IN  tree' \in IF made = {} THEN {tree} ELSE made
  /\ blob' = <<>>
  /\ UNCHANGED <<volume, reader, fcalls>>

\* flatten_directory_contents(): a large model is mapped again, behind the header of a
\* bytes object whose length has the header in it.
get_bytes(t, order) ==
  InMemory(t, order, 1, 0, get_buffer_size_for_serialization(flatten(t, order, 1), 1))
get_bytes_from_external_memory(t, order) ==
  LET size == get_buffer_size_for_serialization(flatten(t, order, PageSize), PageSize)
  IN  InMemory(t, order, PageSize, PyHeader, PyHeader + size + 1)

FlattenDirectory ==
  /\ Call /\ UNCHANGED <<tree, volume, reader>>
  /\ \E p \in DOMAIN volume, order \in Orders, bad \in Faulty(DOMAIN volume) :
       \E t \in make_from_directory(volume, p, order, bad, FALSE), large \in BOOLEAN :
         /\ large = (get_buffer_size_for_serialization(flatten(t, order, 1), 1) > LargeModel)
         /\ \/ ~large /\ blob' = <<get_bytes(t, order)>>
            \/ large /\ \E m \in make_from_directory(volume, p, order, bad, TRUE) :
                           blob' = <<get_bytes_from_external_memory(m, order)>>

UnflattenDirectory ==
  /\ blob # <<>> /\ ~blob[1].crashed
  /\ \E t \in make_from_buffer(blob[1]), dst \in Targets \cap DOMAIN volume, order \in Orders :
       volume' = write_item_to_disk(t, <<>>, dst, TRUE, order, {}, TRUE, FALSE, volume).volume
  /\ blob' = <<>>
  /\ UNCHANGED <<tree, reader, fcalls>>

ReadObject ==
  /\ Call /\ UNCHANGED <<tree, volume, blob>>
  /\ \E text \in Texts, zeros \in {<<>>, <<"0">>} :
       reader' = <<NewReader(ReversedIMemoryStream(serialize_metadata(text) \o zeros))>>

FsInit ==
  /\ blob = <<>> /\ reader = <<>> /\ fcalls = 0
  /\ volume \in Directories
  /\ tree \in {NewFs(RootName)} \cup
             UNION {make_from_directory(volume, p, order, {}, lazy) : p \in Targets, order \in Orders, lazy \in BOOLEAN}

FsNext ==
  \/ MakeDirectory \/ MakeFile \/ RemoveItem \/ RenameItem \/ WriteToDisk \/ LoadDirectory
  \/ Serialize \/ Deserialize \/ FlattenDirectory \/ UnflattenDirectory \/ ReadObject \/ ReadChunk

-----------------------------------------------------------------------------
(* What holds *)

Loaded(t) == [p \in DOMAIN t |-> [t[p] EXCEPT !.lazy = FALSE]]
NamedByKey(t) == \A p \in DOMAIN t \ {<<>>} : t[p].name = Last(p)

\* The bytes of a file system give it back, whatever the order, the alignment and the
\* address they were written with, and lie within the length that was computed before.
BytesHold(b) ==
  /\ make_from_buffer(b) = {Loaded(b.of)}
  /\ End(b.place) <= b.room /\ b.room <= b.size
  /\ \A r, s \in {x.region : x \in b.stored} \cup {b.place} : r = s \/ ~Overlap(r, s)

\* The first object of a text: up to the brace that closes the first, outside strings.
ObjectOf(text) ==
  LET from == Min(Starts(text))
      Step(s, i) ==
        IF s.open = 0 THEN s
        ELSE LET c == text[i]
             IN  [open |-> IF s.quoted \/ c \notin {"{", "}"} THEN s.open ELSE IF c = "{" THEN s.open + 1 ELSE s.open - 1,
                  quoted |-> IF c = "quote" /\ ~s.escaped THEN ~s.quoted ELSE s.quoted,
                  escaped |-> s.quoted /\ c = "escape" /\ ~s.escaped, end |-> i]
      last == FoldLeft(Step, [open |-> 1, quoted |-> FALSE, escaped |-> FALSE, end |-> from],
                       [i \in 1 .. Len(text) - from |-> from + i])
  IN  IF Starts(text) = {} \/ text[from] # "{" \/ last.open > 0 THEN <<>> ELSE SubSeq(text, from, last.end)

\* What is_quote_escaped() does not see: an escape that ends a chunk, or that is escaped.
Misread(text) ==
  \E i \in 2 .. Len(text) :
    /\ text[i] = "quote" /\ text[i - 1] = "escape"
    /\ (i - Min(Starts(text)) - 1) % ChunkSize = 0 \/ text[i - 2] = "escape"

ObjectRead(r) ==
  ~Misread(r.text) /\ Len(ObjectOf(r.text)) <= MaxRead
    => (IF r.open = 0 THEN r.object ELSE <<>>) = ObjectOf(r.text)

\* A model's files survive the ways the file system takes them, in
\* inmemory_filesystem.cpp: serialized and read back they are the same files, inside
\* the length computed before; copying to pages already mapped, which ends the process,
\* does not happen at page-aligned addresses; written to an empty directory and loaded
\* they are the same unless an item was renamed, whose node keeps its name; and the
\* reader of json_util.cpp takes from a stream the object that is there.
FilesSurvive ==
  /\ blob # <<>> =>
       \/ ~blob[1].crashed /\ BytesHold(blob[1])
       \/ blob[1].crashed /\ (blob[1].dst % PageSize # 0 \/ blob[1].alignment % PageSize # 0)
  /\ NamedByKey(tree) =>
       \A order \in Orders :
         LET w == write_item_to_disk(tree, <<>>, <<>>, TRUE, order, {}, TRUE, FALSE, [q \in {<<>>} |-> Dir])
         IN  w.ok /\ make_from_directory(w.volume, <<tree[<<>>].name>>, order, {}, FALSE) = {Loaded(tree)}
  /\ reader # <<>> /\ ~Reading => ObjectRead(reader[1])
=============================================================================
