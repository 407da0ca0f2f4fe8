# A verification project for zimlib and zimwriter

This directory holds TLA+ models of the code in `src/zimlib`, `src/zimwriter` and
`src/cxxtools/src/http`, the configurations that check them with TLC, and theorems
about them that TLAPS checks. `zimlib` reads zim files (an archive of articles, with
clusters of compressed data, two sorted lists of entries and a full text index in a
zim file of its own); `zimwriter` creates them. The other directories of `src`
(`cxxtools`, `tntdb`, `xz`) are libraries that the repository ships for its build. Of
these the http server of `cxxtools` is modelled, and the interface by which the rest
uses `zlib`, `bzip2` and `lzma`.

`zimlib` and `zimwriter` are single threaded: no locks, no threads and no callbacks
that run on their own. What makes them hard are long runs of steps over mutable state:
entries that are sorted four times and renumbered between, pages of many streams in one
file, caches that have to be right for all later calls, stream buffers between a caller
and a library either of which may take only a part of what it is given, and failures
that leave an object half way. The http server is the concurrent part: threads that
decide on what they have seen a moment ago, an event loop that hears of it later, and
sockets that go back and forth between them.

## 1. The system

### Writing

| part | source (under `src/zimwriter`) | state | operations |
| --- | --- | --- | --- |
| `ZimCreator` | `src/zimcreator.cpp` | directory entries, title index, cluster offsets, mime types, header; a temporary file of clusters | `create`: collect, prune, number, translate, sort, pack, fill the header, write |
| `ArticleSource` and its kinds | `src/filesource.cpp`, `src/dbsource.cpp`, `src/search.cpp`, `src/indexersource.cpp` | where the source stands | `getNextArticle`, `getData`, `getMainPage`, `getLayoutPage` |
| `MStream` | `src/mstream.cpp` | a buffer per word, a page file, a page counter | `write`, `read` |
| `Indexer` | `src/indexersource.cpp` | the words of all articles, as an `MStream` | `createIndex`, `getNextArticle`, `fetchData` |
| `Zimindexer` | `src/zimindexer.cpp` | the article under way | `process`, `onH1` ... `onP`, `insertWord` |
| `ArticleParser` | `src/articleparser.cpp` | parser state, entity, word, position | `parse`, `endparse` |

`zimwriterdb` and its like give `ZimCreator::create` an `ArticleSource`. For a
full text index the source is an `Indexer`: it reads all articles of a zim file,
has an `ArticleParser` call `Zimindexer` for each word, keeps the occurrences of a
word in its stream of `MStream`, and then hands out one article per word, whose
parameter and data hold the occurrences in compressed integers.

### Reading

| part | source (under `src/zimlib`) | state | operations |
| --- | --- | --- | --- |
| `streambuf`, `ifstream` | `src/fstream.cpp` | the parts of the file, a cache of open ones, the current one, a get area | open, `underflow`, `seekpos` |
| `FileImpl` | `src/fileimpl.cpp` | the stream, header, mime types, caches of entries, clusters and offsets of namespaces | `getDirent`, `getCluster`, `getNamespaceBeginOffset`, `getNamespaceEndOffset`, `getNamespaces`, `verify` |
| `File` | `src/file.cpp` | a handle of `FileImpl` | `findx`, `findxByTitle`, `hasNamespace`, `getArticle` ... |
| `Cache` | `include/zim/cache.h` | a queue of keys and values, a limit | `put`, `getx`, `erase`, `setMaxElements` |
| `Fileheader`, `Dirent`, `Cluster` | `src/fileheader.cpp`, `src/dirent.cpp`, `src/cluster.cpp` | what they hold | `operator<<`, `operator>>` |
| stream buffers | `src/{deflate,bzip2,lzma}stream.cpp`, `src/{inflate,bunzip2,unlzma}stream.cpp` | two buffers, the state of a library | `overflow`, `underflow`, `sync`, `end` |
| `IndexArticle`, `ZIntStream` | `src/indexarticle.cpp`, `src/zintstream.cpp` | the entries of a word, by category | `readEntries`, `get`, `put` |
| `Search` | `src/search.cpp` | results | `search`, `find` |
| `Article`, `TemplateParser` | `src/article.cpp`, `src/template.cpp` | parser state | `getPage`, `parse`, `flush` |

`File` asks `FileImpl` for an entry, `FileImpl` seeks in the stream, the stream
opens parts as needed, and both layers keep what they got in a `Cache`. A cluster
is read through one of the expanding stream buffers. `Search` finds the words of a
query with `File` in the index and ranks articles by what `IndexArticle` unpacks; a word
that the index lacks is looked for at the begin of titles. `SearchSource` of `zimwriter`
makes a source of articles of the results, with the redirects to them. `getPage` has a
`TemplateParser` read the layout page and calls itself for what that names.

### Serving

| part | source (under `src/cxxtools`) | state | operations |
| --- | --- | --- | --- |
| `Worker` | `src/http/worker.cpp` | a thread, and the socket it has | `run` |
| `ServerImpl` | `src/http/serverimpl.cpp` | runmode, queue, idle sockets, threads, ended threads | `start`, `terminate`, the handlers of its six events |
| `Socket` | `src/http/socket.cpp` | a connection: its request and timer | `accept`, `onInput`, `onTimeout` |
| `Queue` | `include/cxxtools/queue.h` | elements, threads that wait | `get`, `put`, `numWaiting` |
| `EventLoop`, `Selector`, `Timer` | `src/eventloop.cpp`, `src/selector.cpp`, `src/timer.cpp` | events, the flag to end, sockets and timers | `commitEvent`, `run`, `exit` |

A worker takes a socket from the queue: one that accepts, in which case it puts another
one in the queue before it serves the connection, or one with input. A connection that
is silent for ten milliseconds it gives to the event loop, which puts it back into the
queue when there is input, or deletes it after the keep alive timeout. A worker that
leaves no other waiting asks for a thread; one that finds enough waiting ends.

### Where it is hard, and what makes each part correct

* **MStream.** Buffers of a word straddle pages; pages of words interleave; a page
  is written from a buffer object that still holds another page. Correct: a read
  returns what was written, pages are never shared, lost, overrun or rewritten.
* **ZimCreator.** Aids, indexes in url order and indexes in title order replace each
  other in the same vector, and positions are computed from sizes before anything
  has been written. Correct: in the finished file every redirect, every list, every
  cluster number, the main page and the checksum lead to the right thing.
* **Lookup.** Two binary searches narrow a third; each leaves its result in a cache
  for all later calls. Correct: searches end, find what is there, and no call
  leaves a wrong offset behind, failing reads included.
* **Stream of parts.** A descriptor keeps its own offset while another part is the
  current one. Correct: reads like one flat file.
* **Cache.** One queue with two halves, and limits that may be odd, one or zero.
  Correct: a map that forgets, but forgets the right entries.
* **ArticleParser.** Words are split by tags, entities and characters of several bytes, and
  their positions are computed back from their ends. Correct: the words of the article, with
  the right headings, where they are, and no two in one place.
* **Index data.** Differences that wrap, a first entry stored apart, blocks without
  separators. Correct: what a reader gets is what the indexer found.
* **Pages.** States of a parser that hold offsets into a buffer others clear; a recursion on
  two ways. Correct: nothing of a template is lost or comes twice, each token and link is
  replaced by what it names, and every call ends.
* **Search.** Finding by a prefix builds on a binary search among equal titles; counts, weights
  and positions are kept in maps that overwrite. Correct: the articles that have the words, with
  true sums, and a source that hands out all of them and behind them each redirect to one of them.
* **Http server.** Numbers of waiting threads that are out of date when used, sockets with one
  owner at a time, and a termination that has to wake everyone. Correct: no socket is lost or
  used by two, input is read, connections are accepted, the server ends.
* **Stream buffers.** Each side takes and gives as much as it likes. Correct: nothing
  lost, nothing twice, every call returns.

`PROJECT.json` lists the hazards line by line and the properties against each. Five have no property: the code
has nothing against them, and the properties that come near leave the case out or take what the code does
as it is. Their notes say so: a file of empty articles only (`zimcreator.cpp:435`), a deflate stream that is only flushed
(`deflatestream.cpp:117`), weights that wrap (`search.cpp:201`), a timer that elapses twice (`timer.cpp:146`), and a
heading that stays open (`articleparser.cpp:415`).

## 2. The models

```
StreamStore <---- MStream                 (abstract <-- detailed)
LossyMap    <---- Cache ----> ZimStream ----> FlatStream
ZimFile  <-extends- ZimCreator
ZInt     <-instance- IndexData <-extends- Indexing -instance-> ArticleParser
CompressBuf, ExpandBuf <-instance- CompressedCluster
TemplateParser <-extends- Pages
Queue    <-extends- HttpServer
Lookup
Search                                    (takes of Lookup what FindsRight says)
```

`MStreamProofs`, `ZimCreatorProofs`, `CacheProofs`, `LookupProofs`, `HttpServerProofs`, `PagesProofs` and
`IndexingProofs` each extend the module of that name, `BuffersProofs` extends `CompressedCluster`.
`LookupProofs` extends `Search` as well, and `CacheProofs` extends `ZimStream`.

Every module has the names of the code where TLA+ allows it. A pass of a loop, or a
stretch of code between two loops, is one action; an action has everything the code
does in that stretch. Names beginning with `Bug` are not part of any model: each is
a variant of the operator after it, as a slip in the code would make it, and is used
to see that a property notices.

**MStream** (`mstream.cpp`, `mstream.h`). One action per way that a byte is put:
room in the buffer, growing, filling the current page, a new page. `overflow` calls
`sputc` itself when it is done, so these actions hold the whole of it. A page in
`file` is the record of its link and its bytes. The history variables `written` and
`chain` say what was put and in which pages. `StreamStore` is the abstract
specification: one byte sequence for each word, and a read that returns all of it.

**ZimCreator, ZimFile** (`zimcreator.cpp`; `dirent.cpp`, `fileheader.cpp`,
`cluster.cpp`, `fileimpl.cpp`). `create()` from the first article to the digest. `sort`
is any arrangement in order, as the standard library leaves equal elements in any.
A file is a sequence of items with sizes and positions, and an item can be read only
where it begins, so a wrong size or a wrong sum anywhere puts a reader off. A text is
represented by its length: the length gives the size in the file, and texts of the
letter `a` sort by their lengths. The compressed size of a cluster is any of a small
set. Properties are stated about the finished file as `ZimFile` reads it back.

**Cache, LossyMap** (`cache.h`). The queue, most recent first. `hot` is a history
variable: the keys moved to the front last. `LossyMap` is the abstract specification:
a map that may forget at any `put`, and never answers with an old value.

**Lookup** (`fileimpl.cpp`, `file.cpp`). The two namespace searches, the search by url
and by title, `hasNamespace` and `getNamespaces`, over any directory a writer can
produce, with their caches. Any read of an entry may fail and throw; a stream that has
failed in a read fails in all later ones, one that has failed in a seek may not.

**ZimStream, FlatStream** (`fstream.cpp`). Parts of a file, found one by one, cached
descriptors each with an offset, one current part and a get area. It uses the operators
of `Cache` for `openFilesCache`. `FlatStream` is the abstract specification: a file, a
position, and reads and seeks.

**ArticleParser** (`articleparser.cpp`, `zimindexer.cpp`). The ten states of the parser,
byte by byte, as functions of a record; what an entity stands for is parsed in its turn.
The handlers of `Zimindexer` hear of each tag and word. A title or text comes in tokens of a
few bytes, whole ones and pieces (`odd`), in any order. The tokens are also the reference: `Expected`
says what words an article has and where, without any states. An article is left out of
`WordsRight` if it has odd tokens, and if the one before it left a heading open, as
that still counts (`tagged`). The entity of `&` is odd: the code takes the ampersand
that it stands for as the begin of another entity and drops what follows up to the next `;`.

**Indexing** puts it in front of `IndexData`: the word that is packed is one of those of the
articles parsed, or one that occurs in any others, which `InsertWord` stands for.

**IndexData, ZInt** (`indexersource.cpp`, `indexarticle.cpp`, `zimDump.cpp`,
`zintstream.cpp`). A word is inserted any number of times; its occurrences are packed
into parameter and data, and two readers unpack them. `ZInt` is the code of numbers as
bytes, for bytes and numbers of any width; all arithmetic is modulo the width.

**CompressBuf, ExpandBuf, CompressedCluster** (the six stream buffers; `cluster.cpp`).
The libraries behind the buffers are external: a compressor takes some of its input,
gives some of what it has taken and keeps the rest inside, by the rules its callers rely
on; a decompressor likewise. `CompressedCluster` writes a stream through the one, puts
it into a file with bytes behind it or not, and reads it through the other.

**TemplateParser, Pages** (`template.cpp`, `article.cpp`). The nine states of the parser are
functions of a record, with the calls to its event. The calls of `getPage` are the frames of
a stack; a character of the template of the last one is a step, with all that the handler of the event
does up to the next parser. Tokens have names of one letter. A template comes in pieces, as
text, tokens, links and parts of these (`odd`), and the pieces are the reference: `ExpectedPage` replaces
each by what it stands for, to the depth of the limit, without parser or stack. A page with an odd piece
is left out of `PageRight`, not of `TextKept`.

**Search** (`search.cpp` of `zimlib` and of `zimwriter`). A token of the expression is a step, and so is
an article that the source hands out. `FindByTitle` takes of the binary search what `FindsRight` of
`Lookup` says: any of several equal titles. Letters are numbers; weights wrap at `Width` bits.

**Queue, HttpServer** (`queue.h`; `worker.cpp`, `serverimpl.cpp`, `socket.cpp`, `eventloop.cpp`,
`selector.cpp`, `timer.cpp`). A step is what a thread does between two looks at what others change.
What a thread does under the mutex of the queue is one step. `_threadMutex` is held within steps,
and over several of them in `start` and in `terminate` (`Locked`), but not while that waits for threads to end.
Reading a request, running the responder and replying is one step without data, as only one
thing matters for the rest: whether the connection is kept. Clients connect, send
and hang up as they like. `accept`, the connect by which `terminate` wakes a listener, and the
creation of a thread may fail. `pc` says where a worker is, `loop` where the thread of the loop is.

### Order of work

1. `StreamStore`, `MStream`, `MStreamProofs`: the store under the index (done).
2. `ZimFile`, `ZimCreator`: the file itself (done).
3. `LossyMap`, `Cache`, `CacheProofs`; `Lookup`; `FlatStream`, `ZimStream`: reading (done).
4. `ZInt`, `IndexData`: the data of the index (done).
5. `CompressBuf`, `ExpandBuf`, `CompressedCluster`: what clusters go through (done).
6. `ArticleParser`, `Indexing`: words of articles, in front of `IndexData` (done).
7. `TemplateParser`, `Pages`: pages of articles (done).
8. `Search`: results, their filter, finding by a prefix, the source made of it (done).
9. `Queue`, `HttpServer`: the threads of the server (done).
10. `LookupProofs`, also about `Search`; `HttpServerProofs`, `PagesProofs`, `BuffersProofs`,
    `ZimCreatorProofs`; `CacheProofs`, also about `ZimStream`; `IndexingProofs` (done).
11. The caches of entries and clusters in `FileImpl` as clients of `Cache` and `ZimStream`, and the
    walk of `Indexer` over the articles of a file.

## 3. The runs

| run | configuration | what it shows |
| --- | --- | --- |
| `mstream` | `MCMStream.cfg` | Two word streams in one page file. `RoomForEveryByte`: no buffer or page is overrun. `PagesLinkedOnce`: no page is shared or lost. `OnlyLastPagePartial`: no gaps. `FileAppendOnly`: nothing on a page is overwritten. `ImplementsStore`: `MStream` implements `StreamStore`. |
| `creator` | `MCZimCreator.cfg` | Files from up to three entries in any order. `EntriesSound`: redirects are kept if they lead somewhere. `IndicesLead`: they lead there, and so do main and layout page. `ListsInOrder`: both lists are in the order that a reader searches. `ArticlesReadable`: data, type, title and parameter come back. `FileVerifies`: the file opens and its checksum is found. `Ends`: `create` returns or throws. |
| `cache` | `MCCache.cfg` | All sequences of calls. `CacheTypeOK`: limits are kept; `KeysOnce`; `HotStay`: new keys never push out the ones hit last; `ImplementsMap`: `Cache` implements `LossyMap`. |
| `lookup` | `MCLookup.cfg` | All small directories. `OffsetsSound`: the caches are never wrong; `FindsRight`: what is found and where it would be; `NamespacesRight`; `CallsReturn`. |
| `zimstream` | `MCZimStream.cfg` | All small splits into parts. `ImplementsFlat`: reads like one file; `DescriptorsSound`: never more descriptors open than allowed; `ReadsReturn`. |
| `index_data` | `MCIndexing.cfg` | All small articles, and all occurrences of a word. `WordsRight`: an article yields its words, with the weight of the heading each is in, and the positions if it has no entities. `ParserSound`: words do not overlap, whatever broken pieces the article has. `ReadersRight`: the search gets the articles, `zimDump` the positions too. The assumption `EveryNumber` has TLC take every number through `Put` and `Get`. |
| `cluster` | `MCCompressedCluster.cfg` | Any behaviour of the libraries. `BuffersSound`: on the way out and back each byte is in one place, in order; `ReadBack`; `CallsReturn`. |
| `pages` | `MCPages.cfg` | All small templates. `ParsersSound`: a parser loses nothing and repeats nothing. `PageRight`: a page is what its templates say, and a call fails just where it must. `PagesEnd`. |
| `search` | `MCSearch.cfg` | Small files and expressions. `PrefixFound`: what a prefix or a range finds. `ResultsRight`: which articles. `WeightsRight`: with which counts and weights. `HandedRight`: what the source made of it hands out, results that are redirects included. |
| `server` | `MCHttpServer.cfg` | All interleavings of workers, loop and clients. `OwnedOnce`: a socket is in one place. `ThreadsEnough`: never fewer threads than the minimum or more than the maximum. `InputServed`, `ConnectionAccepted`, `Terminates`. |

Two more runs show where the code does not do what a comment or its own other side says.
TLC finds a counterexample in each:

| run | property | what the code does |
| --- | --- | --- |
| `creator_internal_error` | `NoInternalError` | `zimcreator.cpp:152` removes redirects that lead nowhere in one pass by aid. A redirect with a smaller aid that leads to one removed later stays, and `create()` throws "internal error". |
| `index_positions` | `PositionsRight` | `indexarticle.cpp:104` stores the difference of two positions where `indexersource.cpp:158` has packed one, and `zimDump.cpp:191-207` adds them up. |

The properties of the passing runs leave out the cases in which the code does something
nobody would want, each by a condition in its definition:

* If all articles are empty `zimcreator.cpp:435` leaves the clusters out, after a mere warning, but
  the header still counts them: the checksum is not found (`FileVerifies`, `ArticlesReadable`).
* For a namespace before the first one of the file `fileimpl.cpp:266` returns the end offset 1, and
  `file.cpp:125` compares the one entry left by its url alone: an article of another namespace is
  found (`FindRight`).
* `deflatestream.cpp:117` stops flushing when the input is taken, although there may be more output
  than fits; `ReadBack` is about streams that were ended.
* Of several articles with the same title as the prefix, `find` may leave out those before the one that
  the binary search hits (`PrefixFound`).
* `find` does not skip redirects (`search.cpp:237`), so a result may be a redirect. `SearchSource` hands it out
  although its target need not be a result, and `ZimCreator` then removes it as one that leads nowhere
  (`zimcreator.cpp:152`): what was found is not in the file. If its target is a result, it is handed out twice. Nothing in
  the repository says otherwise, and `HandedRight` allows both.
* A title of more than three letters has a weight below zero, which wraps (`search.cpp:201`); `WeightsRight` takes
  that as it is.
* A link in a template to an article that is not there has `getPage` dereference a null pointer, and what
  a page has written before it fails stays written (`PageRight` says so).
* A loop that is so late that the timer of an idle socket elapses twice (`timer.cpp:146`), or together with
  input (`selector.cpp:150-156`), deletes the socket twice, or deletes it and passes it on
  (`OwnedOnce`, while not `raced`).
* A worker that has decided to end counts as a thread until it has told the server. If the limit is reached by it,
  the event that asks for a new thread is dropped, and input may wait until the next connection
  comes (`InputServed`, unless `refused`). Connections are accepted all the same.
* When `accept` throws, no socket of the listener is left in the queue (`worker.cpp:110`), and when the connect of `terminate`
  fails, the threads are left alone: liveness is claimed while no call of the system has failed.
* Sockets in events that the loop has not processed when it ends are never deleted (`eventloop.cpp:173`), and
  a connection that has become silent while the server still starts is deleted (`serverimpl.cpp:264-272`): nothing in the code
  says otherwise, and no property speaks of it.

### Bounds, and why they are enough

* `mstream`: two words; buffers of one byte, doubled once to two, pages of three, so
  that buffers straddle pages in every way; seven bytes take a stream to a second, linked
  page through all branches of `overflow`. Words are symmetric.
* `creator`: three entries is the least for a chain of redirects whose order matters,
  for a title order unlike the url order, and for a compressed cluster that is
  interrupted by an uncompressed article. Articles have no bytes, one or six; two
  compressed ones fill a cluster, or one. `RedirectMime` is 2, so that a third mime type
  is one too many. The articles satisfy `TextAssumption` (section 4).
* `cache`: five keys, limits from none to four and changes between them: odd and even
  limits, and more keys than fit.
* `lookup`: up to six entries in up to three namespaces (up to three in the one asked for,
  any urls and titles out of three, with equal titles). The loops halve a range of up to six, and each
  namespace asked for may be missing before, between or after those in the file.
* `zimstream`: up to four parts of up to two bytes, empty ones included, and two
  descriptors in the cache: parts are evicted and opened again.
* `index_data`: bytes of four bits and numbers of eight; articles, positions and their
  differences are on both sides of 7 and 71, where a number takes one more byte, and
  wrap at 256. Four occurrences make a first one, and a first, a repeated and a new one in
  the block. Articles have up to four tokens of twelve kinds, in title and text, in one or two articles:
  that is enough for a word between two tags, and for a word of several pieces before another.
* `pages`: a limit of three, and two templates of up to two pieces that include each other, are enough for each
  way to run into it and to stay below; three pieces in a row, of fifteen kinds, for a broken one before and behind any other.
* `search`: four entries are two articles and two redirects, one of which may lead to the other
  or lie in another namespace; titles equal to each other and beginning with each other, and one of five letters,
  which weighs less than nothing. Results are redirects with and without their targets. A word has
  entries, has none, or is not there. `SearchLimit` is 2, so that it is met, `Width` 5.
* `server`: one listener and at most two threads, of which one is kept, so that threads come and go and
  the limit is met; four numbers for them, as a thread has its number until it is joined. In one `Scenario` there
  is one connection, and anything may happen with it; in the other there are two, and nothing fails. That makes three sockets,
  with the ones that accept. A client sends once on a connection (`MaxInputs`).
  A second listener, or larger numbers, did not end within minutes.
* `cluster`: all buffers of two, six bytes, and up to three bytes behind the stream: a
  compressor can keep three times what its buffer takes. What follows the stream is made of other
  bytes (`Other`); the theorems allow the same ones.

A few bounds never bite. Workers and sockets get their numbers from finite sets: `StartThread` and `Accepted` have
guards that some number is free (`Idle`, `Unused`), as the code has no such limit; `MCHttpServer` has enough of
both. `Byte` in `Pages` is what templates are made of, just for the theorems.

Deadlock is checked where the system never stops (`mstream`, `cache`, `lookup`,
`zimstream`, `pages`, `search`). `create()`, the packing of a word and a cluster's way come to an end, and
a server that has been terminated stops; their configurations say so.

### Fairness

A call that has begun runs on, as nothing but the call itself runs: that is what each
weak fairness condition says, and none says more. `ZimCreator` has it for `Next`
(`create()` is one call). `Lookup` has it for `Continue`, the steps of a call, and for
`Throws` once the stream is broken; nobody need ask anything, and disks need not fail.
`ZimStream` has it for the steps of `underflow`. `CompressedCluster` has it for the steps
of a call of either buffer. `Pages` has it for the two steps of a call, and nobody need ask for a page.
`HttpServer` has it for each worker and for the thread of the loop: the scheduler runs every thread that can run. No more is
assumed: clients need do nothing, a woken thread may be overtaken, no timer need elapse, and calls
of the system need not fail. A worker whose client never pauses for ten milliseconds would
be kept by it; a bounded number of inputs excludes that. The libraries behind the buffers make progress only as their
interface says: a call goes on until it has no input or no room for output. The other
modules have no fairness and no liveness properties.

## 4. The theorems

`MStreamProofs` is about any words, bytes, chunks and sizes under the assumptions of
`MStream`: `BufferAssumption` (sizes are positive, and a buffer that can grow no more fits a
page; the code does not check it, its defaults satisfy it) and `ChunkAssumption`
(what is written are sequences of bytes). Neither invariants nor refinement are
inductive as they stand, because the page file says nothing about what has been
written. The inductive invariant

    IInv == TypeOK /\ RoomForEveryByte /\ Chains /\ Bytes /\ ReadLoop

says it with the history variables: the pages of a word are those of `chain[word]`, linked
in that order and forwards, all but the last full, no page on two chains or on none
(`Chains`); byte `j` of page `i` of a chain is byte `(i - 1) * DataSize + j` of what was
written, and the buffer holds the rest (`Bytes`); a read that stands before page `k + 1` has
read the bytes of `k` pages (`ReadLoop`). There is one lemma for each action; what
`PutFill` and `PutNewPage` do to pages and buffers are lemmas of their own. Theorems:

* `TypeCorrect`; `NoOverrun`, `PagesNeverShared`, `NoGaps`: the invariants of the run.
* `ReadsEnd`: links lead to later pages, so that the loop of a read ends.
* `PagesAppendOnly`: no byte and no link on a page is ever overwritten.
* `StreamsImplementStore`: `Spec => ImplementsStore`. The refinement maps `store` to
  `written`; that a read's answer is the whole of it needs `ReadLoop` and `Bytes`.

`ZimCreatorProofs` is about any articles in any order, any texts and any sizes of clusters, under `CreatorAssumption`
(numbers are numbers) and `TextAssumption`: a parameter has less than 256 bytes, since its length is stored in one, and no mime
type is empty, since that would end the list of them; `zimcreator.cpp` checks neither. The first invariant is about the entries,

    IInv == /\ pc \in Places /\ di \in 1 .. Len(dirents) + 1
            /\ pc \in {"collect", "refused"} => di = 1
            /\ ArticlesSound /\ Entries /\ NoneLost /\ Ordered /\ Targets /\ Indices
            /\ Titles /\ Clusters

each is the entry of one article (`Entries`), an article without one is a redirect that leads nowhere (`NoneLost`),
and while a binary search by aid may be made the entries are in the order of aids (`Ordered`): no step that searches could be
shown right without it. The second one, inductive together with the first,

    LInv == /\ UrlsOnce(articles) /\ UrlOrder /\ Redirected /\ TitleOrder /\ MimesRight
            /\ DataFound /\ Offsets /\ Written

says what was put down for later: indexes are in the order of urls before the entries are so again (`UrlOrder`), a redirect
has the index of what it leads to (`Redirected`), an entry's data is in a cluster written or in the one
still pending (`DataFound`), and offsets are sums of sizes (`Offsets`). What the reader finds is then a matter of layout. A file is
its parts in a row (`PartsJoin`), the sums of `fillHeader` are where these begin (`PartsEnd`; that needs `DirentFits`: both ways to reckon the size
of an entry agree), and as no item is empty, no two begin at one position (`Rising`), so that the reader gets
the very item that was written there (`ItemThere`).

* `EntriesTheorem`: the entries are those of all articles and of just the redirects that lead to one.
* `ListsTheorem`, `IndicesTheorem`: both lists are in order, redirects and the header's pages lead to their articles.
* `ArticlesTheorem`: each article is read back, with title, mime type, parameter and its own data.
* `FileTheorem`: the file opens, and the checksum is the one of all that stands before it.
* `CreateEnds`: `create` takes at most four steps for each article and seven more. Of `Ends` this is what can be proved without fairness;
  that a step is taken as long as one can be stays with the run.

`CacheProofs` is about any keys, values and limits under `LimitAssumption` (limits are
numbers). `CacheTypeOK`, `KeysOnce` and `HotStay` are inductive together: that hot keys keep
their places needs that no key has two entries, and both need the limit. Lemmas first say what
`RemoveAt`, `InsertAt`, `Cut` and `ToFront` do to a sequence, element by element. Theorems:

* `TypeCorrect`, `NoDuplicates`, `ScanResistant`: the three invariants of the run.
* `PutsStay`: the entry just put is not the one that is dropped (no run checks this one).
* `CacheImplementsMap`: `CacheSpec => ImplementsMap`, with the map of the queue's contents.

Its second half is about `ZimStream`, which uses the operators of `Cache`, for any parts of any sizes under
`StreamAssumption`. `StreamInv == Typing /\ Descriptors /\ Reading`:
what is open are the descriptors in the cache and the current one, each for one part (`Descriptors`), and the get area ends where
the current descriptor stands in the whole file (`Reading`). That a part begins at the sum of the sizes before it needs
an induction, which is done by the least counterexample.

* `DescriptorsTheorem`: few descriptors are open, and just those that somebody has.
* `StreamImplementsFlat`: `Spec => ImplementsFlat`. The refinement maps the position to `Pos`, where the get area is read.

`LookupProofs` is about any directory that satisfies `DirectoryAssumption` (entries have namespaces, urls and
titles that are ordered, and stand in the order in which `ZimCreator` writes them). The inductive invariant

    IInv == Typing /\ OffsetsRight /\ Phases /\ Narrowed /\ NamesSound /\ FindsRight /\ NamespacesRight

says where each search stands: the bounds of a search for a namespace are around where that begins or ends, those of a search
for an entry are around the place where it is or would be (`Narrowed`), and `getNamespaces` has so far got those up to the one
that it asks about (`NamesSound`). Neither `FindsRight` nor the caches (`OffsetsRight`) are inductive alone: a search starts from
the two offsets that the cache or the searches before it gave, and reads that fail may end it anywhere.

* `OffsetsTheorem`: no call, failed ones included, leaves a wrong offset in a cache.
* `FindsTheorem`, `NamespacesTheorem`: what searches find, and which namespaces there are.

Its second half is about `Search`, for any files, expressions, titles and any limit, under `FileAssumption` (entries stand in the
order of titles, each once, and the index is of articles that are there: what `ListsTheorem` says of a file that `ZimCreator` has written),
`InputAssumption` and `SearchAssumption`. First come lemmas about the order of titles: it is total, and the titles with a prefix are a run of
that order. Where the binary search may begin, all before is smaller, unless it has the title asked for itself (`StartsAt`); so what is
found is a piece of that run (`FoundRight`). The results depend on three parts that are inductive together:

    ResultsIInv == SearchTyping /\ TokensSound /\ IndexSound /\ ResultsSound

`IndexSound` says that each article of the index has just the positions that the words so far have found (`WordsTill`); what one word adds is
shown of every prefix of the fold over its entries (`FoldPositions`). `HandedSound` adds that a source has handed out a prefix of the
results, or all of them and the redirects below the one it stands at.

* `PrefixTheorem`: what `find` yields for a prefix or a range, wherever the binary search begins.
* `ResultsTheorem`: the results are the articles the words are found in, filtered, each once.
* `HandedTheorem`: a source hands out these in their order, and behind them the redirects to them, each of the latter once and
  in the order of urls, and no more. A result may be a redirect itself: it may come twice, or without its target.

`HttpServerProofs` is about any numbers of listeners, sockets and threads under `ServerAssumption`.

    IInv == /\ Typing /\ WorkersSound /\ NoneSound /\ StartSound /\ StayingEnough
            /\ ~raced => ~broken /\ TimersSound /\ Owned

`Owned` counts the places where a socket is: the queue, the hands of a worker, the events of the loop, the idle ones;
`TimersSound` has timers only on idle sockets. The empty pointer that ends a worker is in the queue only while the server terminates
(`NoneSound`). `ThreadsEnough` needs `StayingEnough`: those threads that have not decided to end are no fewer than the minimum. A worker
decides to end when it sees enough others waiting, and of these none has decided yet.

* `OwnedTheorem`: unless a timer has elapsed too late, no socket is in two places.
* `ThreadsTheorem`: never fewer threads than the minimum, never more than the maximum.

`PagesProofs` is about any templates under `PagesAssumption` (the templates are made of bytes, the layouts named are there).
Its invariant says of each frame of the stack that what the parser has passed on and what it holds back are the template up
to where it stands, and that where it remembers the begin of a token or a link fits its state.

* `ParsersTheorem`: no parser on the stack loses or repeats a byte, and the stack never is deeper than the limit.

`BuffersProofs` is about any bytes, any sizes and any `Junk` under `SizeAssumption` and `JunkAssumption`.
`NothingLost` is not inductive as it stands: `overflow` may put its byte behind what is left only because it has one in hand
and the compressor has not been told to finish (`Putting`), `underflow` may replace the get area only
because that is empty (`Getting`), and `overflow` of an expanding buffer may drop its input only because nothing is left of
it (`Passing`). What is before the library, in it and behind it is the stream until the trailer has been taken; from then on all contents are before
it and just what follows the stream is behind (`Held`), as the first trailer cuts a stream in one way only.

* `BuffersTheorem`: the invariant of the run, the bounds of all buffers included.
* `ReadBackTheorem`: at its end a reader has what was written, and so has a sink.

`IndexingProofs` is about any articles in any order, made of any bytes, and any width of bytes and numbers, under the
assumptions of `Indexing` and `IndexData`: numbers fit into the bytes of a long one (`WidthAssumption`), articles, positions
and categories are numbers (`IndexAssumption`), the bytes of letters, of tags and of characters are not the same ones and a first byte
has at least one behind it (`BytesAssumption`), and a word does not occur so often that the length of its data would not be a number
(`LengthAssumption`, which the code does not check; both ways a word comes to be packed keep to `MaxEntries`).

The first part is about what the model is built from. A recursive function has the values that its definition says, if its
argument becomes smaller (`Recursion`, by the least counterexample), and so has a fold from the left (`Unfolded`; once more for each operator
that is folded, as no prover takes the operator as a parameter). From remainders and powers it follows that `Get` returns what
`Put` wrote: the ones at the top of the first byte count the bytes that follow, and each of the two sums is taken apart again.
The invariant is

    IndexingInv == ParserInv /\ ReadersInv

`ReadersInv` says of the readers which part of the parameter and of the data they have before them (`Reading`), and of the categories
behind them that articles and positions are there. `ParserInv` rests on `Sound`, which relates the members of a parser: the
word that is open begins at `Start`, the position less the bytes of the word and of the character that is not complete;
a character has as many bytes to come as its first one says; and the words told lie in order before `Start`. Each byte, each entity with
what it stands for and each token keeps this, and `Start` never goes back. `PositionsGrow` alone is not inductive: that the next word begins
behind the last one is `Behind`, the words of the article end before `Start`. A title that ends inside of a character of a word breaks
just this (`cut`), as the parser tells the word and still keeps it.

* `GetPut`, `GetAllPutAll`: numbers are read as they were written, one or many.
* `ParserSafe`: the members of the parser fit its state, and words do not overlap.
* `ReadersSafe`: search and dump read what was packed, each category from where it begins.

Only model-checked are three invariants. `WordsRight` and `PageRight` compare what a parser has passed on with a reference that
looks at the tokens: their proof would need an induction over the ways in which tokens follow each other. `WeightsRight` has sums over sets, and
is true only as long as no true sum outgrows an `unsigned`, as in the run. Only model-checked for good is what holds by fairness (`Ends`, `CallsReturn`,
`ReadsReturn`, `PagesEnd`, `InputServed`, `ConnectionAccepted`, `Terminates`).

## 5. What is not modelled

* **The ranking of search results**: floating point. `ArticleSearch`, which compares the query with every title, is a plain scan.
* **Sources of articles** but for `Indexer` and `SearchSource`: no program of the repository builds a
  `FileSource`; behind the other two are a database and a web server. `ZimCreator` takes articles in any order.
* **The http server's protocol**: parsing of requests, responders, replies, and the timers of a read
  that has begun. `listen` while the server runs, and a queue with a limit, which the server does not use.
* **Which articles are indexed** (`createIndex` skips redirects, types and the layout page): any may be.
* **Index data** without a parameter (`readEntriesB`) and the switch `noOffset`: older formats.
* **Failing disks** in the writers: `create()` ends with an exception, and `MStream` with the
  program. `create()` writes
  the digest after its last test of the stream (`zimcreator.cpp:449`): a full disk at that point leaves a file without it.
* **setBufsize** of the stream of parts, `getChecksum`, and the counters of hits and misses.
* **Error codes of the libraries**, but for the one that a flush without input may meet.
* **Handles and iterators**: reference counts of one thread, and an index that goes up and down.
* **Digest, uuid, unicode, environment**: pure functions. **Programs**: command lines and tests.
* **Vendored libraries** but for the http server: third-party code.
