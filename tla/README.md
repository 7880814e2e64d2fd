# A verification project for cpp-gamefilesystem

cpp-gamefilesystem is a C++17 library for games. Its `storage` part maps files
into memory and gives threads a cursor on them; its `gfs` part puts directories,
archives and platform files behind one file interface and layers them
(user files over game data). This directory holds TLA+ models of the code, the
TLC configurations that check them on small instances, and TLAPS proofs of what
matters most for every instance. Paths below are relative to the repository;
`Storage/` and `GameFileSystem/` stand for the headers in
`include/ReversingSpace/`.

## The system

| Component | State | Operations | Interacts with |
|---|---|---|---|
| `storage::View` (`Storage/File.hpp`, `common/Storage/View.cpp`) | the mapped bytes, `cursor`, `rw_mutex`, `file_offset`, `view_length`, a reference to its `File` | `read`, `write`, `seek` (lock), `read_from`, `write_to` (no lock), `flush`, the getters (no lock) | callers' threads share it; its bytes are the file's |
| `storage::File` (`common/` and `POSIX/Storage/File.cpp`, `POSIX/Storage/View.cpp`) | handle, path, access | `create`, `get_view` (`open_mapping`), `get_size`, `~File`, `~View` | views keep it alive; the kernel: open, ftruncate, mmap, munmap |
| `gfs::PlatformFile` | a `File`, `cursor`, `rw_mutex` | `create`, `read`, `read_from`, `write`, `write_to`, `seek`, `tell`, `get_size` | opens a view for every transfer |
| `gfs::Directory` | a path | `create`, `child_directory`, `get_file`, `get_child_path` | makes directories and platform files |
| `gfs::StorageServer` | the list of mounts, the user directory, a hash function | `create`, `mount`, `unmount`, `get_file` and its parts | asks the user directory, then the mounts from the last to the first, by name and then by hash |
| `gfs::ArchiveSystem` (`GameFileSystem/Archive.hpp`) | directories, loaders | `register_directory`, `unregister_directory`, `register_loader`, `load` | looks in the directories from the last to the first and hands the file to the loaders from the first to the last |
| `storage::File` and `View`, Windows (`Windows/Storage/`) | as above, and the handle of a section per view | as above | the kernel: CreateFile, CreateFileMapping, MapViewOfFile, UnmapViewOfFile |

What is hard about each, and what makes it correct:

* **View.** Threads share one cursor. Ranges handed out to locking calls must not
  overlap or skip, the cursor must not leave the view, and the two kinds of call
  that do not lock must stay inside the mapping whatever they are given. The
  arithmetic is unsigned and may wrap.
* **File and the mapping.** Opening a view is three system calls without a lock,
  each of which can fail; a size that was read may be stale when it is used. The
  handle must live as long as its last view. What is unmapped is computed again,
  from other values than what was mapped.
* **PlatformFile.** A call composes all of the above under its mutex. Transfers
  should look atomic, never touch memory the file does not back, and give the
  mutex back when a step fails. `seek` does not lock.
* **Directory.** "Is it there" and "make it" are two steps, the second of which makes one
  component after the other, and several creators and other programs do this at once. What
  does an answer mean for the caller, and does a server that was made have its directory?
* **StorageServer, ArchiveSystem.** A lookup goes through layers one after the other while
  files come and go, and for writing makes files itself. What is on top must hide
  what is below, whatever happens meanwhile; mounting, by position and by path, must keep the
  order of the rest.
* **Windows.** A section is made of the file and a view of the section, each a system call that
  may fail, and the first of them grows the file.

The code has no network, no crash recovery (nothing is persisted beyond the files
themselves) and no timeouts.

## The modules

### ViewArith: the arithmetic

Words, offsets and page geometry with the wrap of the machine. `calculate_allowance`
and `seek_target` keep the names and the order of the code's comparisons;
`seek_target` keeps the copy of the cursor that the `Current` branch forgets to
update, and `seek_early_store` the assignment that branch makes instead.
`mapping_size`, `real_offset`, `map_length`, `mapping_end` are what `open_mapping`
computes, `release_length` what `flush` and `~View` compute.

`HalfWord` is 2^63 in the code. It is a parameter: the theorems hold for every
value, and TLC uses 16.

### View: threads on one view

Each call is a sequence of steps of its thread (`pc`): enter, take the lock and
compute the range (`LockTransfer`), move bytes one at a time in any order
(`CopyByte`), advance the cursor and unlock (`ReturnLocked`). `read_from` and
`write_to` go the same way without the lock (`BeginTransfer`, `ReturnUnlocked`).
`seek` is two steps because it stores twice. A data race between two memcpy is a
race between single bytes here. The `char*` and the `vector` overloads are one
operation.

`AtomicStream` is the promise: read, write and seek take effect at one instant,
once per call. `View` implements it when only locking calls are used
(`ImplementsAtomicStream`): a call takes effect when it gets the lock. The mapping
shows the bytes as they will be when the running write is through, and the
cursor as it will be when the running call is.

### MappedFile: files, handles and mappings

One path, the inodes it named, File objects with their handle, and views that go
free -> sized -> grown -> mapped -> free. `GetView` is the start of `open_mapping`,
where the size is read, by path. `Grow`, `GrowFails` and `KeepSize` are the
ftruncate on the handle, which sets a size whether it is larger or not; `Map` and
`MapFails` the mmap, which fails for a length of zero or an impossible offset, may
always fail, and does not care where the file ends; `Destroy` is `~View`. `Release`
is the view's `shared_ptr` going away: the last reference closes the file. `Vanish`
is another program removing the path. A view slot whose pages were not all
unmapped is not used again, a bound.

`File::create` with a path that is not a regular file, or whose directory cannot be
made, returns `nullptr` and changes nothing here; the directory is the business of
`Directories`, the check before opening that of `ArchiveSystem`.

### WindowsMappedFile: the same in the Windows build

`CreateMapping` is `CreateFileMappingW` with the maximum `offset_plus_size`: zero means the size
of the file, more than that grows a file opened for writing, and fails for another one. The section then
has that size for good. `MapView` is `MapViewOfFile`, which gives nothing outside the section; it
works with the size that `GetView` read before, which by now may be stale, and `view_pointer` is then moved on to the
first byte of the view. `Destroy` is `~View`, of a view whose opening failed (as it may at either call, at any time) or whose last
owner lets go: `Unmap` works the address of the mapping out of `view_pointer` (`data`), as `flush` does, and `UnmapViewOfFile` unmaps
nothing for any other address. It needs no length, so a view of length zero goes like any other. `Release` closes the
section and gives up the file. The file is opened without `FILE_SHARE_DELETE`, so `Vanish` is possible only while no
handle is open. As in `MappedFile` a torn down view may be made again.

### PlatformFile: the composition

`Storage == INSTANCE MappedFile` with the threads as views, because each call owns
exactly one, and the platform files as `File` objects. Every transfer is `Begin` (lock, size),
`Resize`, `Map` or `Fail`, `Copy`, `Advance`, `Flush`, `Return`; `Copy` is replaced by
`Fault` when the range is not backed by the file or the mapping is read-only, and the
process is gone then (`signal`). `cursor += count` is a load (in `Copy`) and a store
(`Advance`), because `seek` does not lock and may fall between. `Flush` may fail without anybody
noticing. `seek` is `SeekLoad`, `SeekStore` and `SeekReturn`, which loads the cursor once more. `Throw` is the exception of `file_size`
in `File::get_size`, which leaves a transfer while it holds the mutex (unwinding gives it back) and a seek before it did anything; the
path itself is not removed here (`PathMayVanish` is FALSE; it may be in `MappedFile`). The bytes past the end of the file in its last page read as zero, and
writing them changes nothing.

`AtomicFile` is the promise: a file that never loses a byte, each transfer at
one instant, once per call, inside the file. It may be extended with zeros at any time, because
opening a view for a read of a writable file grows it, even when the call then fails. A call takes effect with
its memcpy. Its reply is what it moved and, for `read`, `write` and `seek`, where it left the cursor, so that
the cursor a call stores has to be the one it worked from. A `read_from` or `write_to` of no bytes may name any offset.

`Requests` in `CallAssumption` leaves out lengths within a page of 2^64: `page_delta + view_length` would wrap, and the view be
longer than its mapping.

### Directories: making directories

`node` is a tree of paths; some are links, which are absolute, lie in the root and do not change.
`Begin` starts `Directory::create`, `child_directory`, `File::create` for writing or
`StorageServer::create` (with `create_if_missing` and without). `IsDirectory` is the test;
`create_directories`, a library function, is `Scan` (find the highest missing
component) and one `Mkdir` per component; `Made` is what each caller does with its answer, `Succeed` how
it goes on: `child_directory` calls `create` with what it made, `StorageServer::create`
runs the constructor, which calls `create` again (operation `"userland"`). `Make` and `Remove`
are other programs; only paths in `Removable` are ever removed as directories. `Refuse` is everything the system may answer for a reason
that is not in the tree (no permission, no space, no descriptor): `open(2)` then gives `nullptr`, everything else an exception, and
what was made so far stays. `there` is a ghost field that remembers whether the directory existed when the call began, `refused` a
ghost variable that remembers who was refused; no step depends on them.

### Overlay, StorageServer: the layered lookup

`Overlay` is the promise of a layered lookup that takes time. It answers with a layer that held the key at some
moment of the search such that no layer above it held the key all along; it misses only if no
layer held it all along; and a search for writing may make the key in the topmost layer.
What the layers held meanwhile is kept in two history variables, which `Track` maintains
as a conjunct of the implementations' next-state relation and no guard reads.

In `StorageServer` a lookup is a list of `Passes` over the layers: the user directory, the mounts by name, the mounts by
hash (`get_file` goes through the hashes twice when there is a hash function, because `get_dataland_file` did so already).
Asking one mount is one step (`AskMount`), asking the user directory as well (`AskUserland`, which for writing makes
the file, or fails to, for whatever reason); `EndPass` goes on to the next pass. `Change` and `ChangeUserland` are other programs. `Mount` inserts at a
position or appends, `Unmount` removes the first mount with the path; both overloads do that. `Stack` and `Holders` map this to
an `Overlay`: a mount is two layers, one asked by name and one by hash.

### ArchiveSystem: registration and load

The same promise for `load`, at a finer grain: `NextDirectory` (`get_child_path`), `ReadSymlink`, `Check` and `Open`
(the two halves of `storage::File::create`), and `TryLoader` per loader are steps of their own, between which files are
made, replaced and removed (`Change`). A directory *holds* a name when the name leads to a file that some
registered loader takes. A place may hold a file of some format, one that cannot be opened, a directory, or nothing.
`register_directory` looks for the path first, `unregister_directory` removes the first with the path, `register_loader`
appends.

Mounting, unmounting and registering while a lookup or load runs is excluded (`NobodySearches`, `NobodyLoads`): the
classes have no lock, the vectors would be changed under an iterator, and nothing could be said.

## What the runs check

| Run | Shows | Bounds |
|---|---|---|
| `arith` | the allowance and the seek against definitions over unbounded integers | a five-bit word, lengths to 9: ends before, at and after the length; every request of the word, those that wrap included, of which the property says nothing |
| `view` | types, the lock, the cursor, and that a locking transfer works on the bytes the cursor passes, with every operation mixed | three threads, two bytes; requests that stay inside, reach or pass the end; offsets before, in and behind the view. One byte value: these properties do not look at values |
| `view_locking` | the calls are atomic; the lock comes free | two threads, three bytes, two values, so that torn or stale bytes are told apart |
| `mapped` | handle lifetime, mapped bytes stay in the file, teardown is complete and exact, files only grow | two files, views and inodes; pages of 4, files to 6 bytes: views inside one page, across two, too long; one caller inside `get_view` at a time |
| `mapped_race` (violation) | with two callers, one shortens the file the other has grown | two views |
| `platform_shared` | transfers are atomic, inside the file, never shrink it, are written back; the mutex comes free | two threads on one writable file of up to 3 bytes, pages of 2: growth within a page, into the next, and refused |
| `platform_sequential` | types, the cursor, and that only a read-only handle can fault | one thread, two handles of one file with either access, every operation |
| `platform_seek` (violation) | the cursor moves while nobody holds the mutex | two threads |
| `directories` | what `nullptr`, an exception and a server mean for who gets them; every call returns | two callers, all five operations, refused at any step; a directory of two levels with a file below, a link to it, and a directory that others remove |
| `storage_server` | every lookup is a search of an overlay; mounting keeps the order of the rest; lookups return | one caller, up to three mounts (of one of them several times, two with one path), one name and one hash, a directory whose files come and go, an archive, an archive by hash only |
| `archive_system` | every load is a search of an overlay; nothing is registered twice; the first loader wins; loads return | one caller, two directories, one of which has a link to a link, two formats, up to two loaders |
| `windows` | handles, sections and mappings live exactly as long as needed; mapping, section and file contain each other; flush covers the mapping | two files and two views opened at once, read-only and writable; granularity 4, files to 6 bytes; offsets -1, 0, 3, 5 (at and inside a page), lengths 0, 1, 4 |

Two threads are enough for a lock with one kind of waiter, and the third of the
`view` run adds a call outside the lock beside one inside it and one waiting. The symmetry
sets are threads, files, views and inodes, which nothing distinguishes; the runs that
use them check only safety. In `storage_server` and `archive_system` one caller is enough: callers affect each other
only by making files in the user directory, which `ChangeUserland` does as well, and the theorems are for any number.
Three mounts are what it takes for a mount to lie between two others, and for a path to be there twice with
another mount between. `directories` needs two callers for every race of two, and other programs play the third.

`platform_shared` leaves out three things on purpose, each of which breaks what it checks:
`seek` (see `platform_seek`), `read_from` behind the end of the file (it grows the file under
the shared lock, so two of them are the race of `mapped_race`), and a second writable handle of
the same file (it has a mutex of its own: the same race). `CursorInFile` and
`WritableHandlesNeverFault` speak of writable handles: through a read-only one a view past the
end maps, reading it moves the cursor out of the file or, on a page without any byte of
the file, kills the process. `platform_shared` cannot meet that: a killed process would be a deadlock there.

`CHECK_DEADLOCK` is off only in `platform_sequential`, where the process may be
killed.

### Disagreements found

The two violation runs show a bug each and are recorded in PROJECT.json. The models reproduce these others; two
are theorems.

Files and views:

* A seek forward from the current position stays where it is, and one back from the end goes to 0, where the comments
  say "current + offset" and "end + offset" (`common/Storage/View.cpp:39` and `:45`): theorem `RelativeSeekStays`.
* A view of length 0 maps the file but has `view_length` 0, so it reports size 0 and no call reaches a byte
  (`Storage/File.hpp:349`, "the whole file is mapped"); on POSIX it is then unmapped with length 0, that is, never
  (`Storage/File.hpp:373` wants "all maps properly torn down"): theorem `ZeroLengthIsNotReleased`. The Windows build
  unmaps it (`NothingLeaks` of `WindowsMappedFile`), but `get_view` fails there for length 0 and an offset that is not 0,
  as the section then ends at the offset.
* `View::write_to` never moves the cursor, though it should "if it is exceeded" (`Storage/File.hpp:263`); nor does
  `PlatformFile::write_to` (`GameFileSystem/PlatformFile.hpp:182`).
* A read-only POSIX view behind the end of the file is created, where `Storage/File.hpp:346` promises `nullptr`; touching it
  kills the process. In the Windows build it fails (`ViewsBacked`).
* `offset + requested` in `calculate_allowance` wraps for requests near 2^64 and the request is
  then granted whole: theorem `WrappedRequestIsGranted`. `AllowanceFits` has the converse as its hypothesis;
  `View` assumes that requests are smaller (`RequestAssumption`), and the property of `arith` has that condition.
  For a request that wraps memcpy leaves the view, and no property says otherwise.
* `File::get_size` asks the path, while `open_mapping` truncates the handle. After the path
  was removed and made again they are two files. This is why `WritableViewsBacked` and `FilesOnlyGrow`
  are about the file the path names.
* A negative offset may grow a writable file before the mapping fails, in both builds.

Directories:

* When somebody else makes the directory between the test and `create_directories`, `Directory::create`,
  `child_directory` and `File::create` return `nullptr` although it is there, against the comment "Failed to create directory (and
  did not exist before)" (`common/Storage/File.cpp:48`). For a directory nothing else makes them do so, and for a file only an
  `open(2)` that is refused or finds a directory (`NullMeansLostRace`).
* What cannot be made, because something is in the way or the system refuses it, is reported by a `filesystem_error`, where
  "nullptr on failure" is documented (`GameFileSystem/Directory.hpp:103`). For a `File` opened for writing by a bare relative name the parent path is empty and
  always throws.
* `child_directory` of a dangling link throws, while `create` would make the directory the link leads to.
* A link whose target is relative is resolved against the working directory, not that of the link
  (`GameFileSystem/Directory.hpp:76`, `Archive.hpp:198`, `StorageServer.hpp:271`), and a cycle of links is followed for ever. The
  models have absolute, acyclic links.
* If somebody removes the user directory while a server is made, the server may have no user directory, or `create_if_missing = false`
  may create it: both properties are about directories that nobody removes.

Lookups:

* `unmount(pointer)` compares paths, so it may remove another mount than the one it was given, and of several it removes the one
  that is asked last.
* A file looked for with write access is given read-only when it is not in the user directory and cannot be made there: a
  directory has its name, another caller made the directory above it first, or `open(2)` was refused.
* A lookup for writing makes an empty file in the user directory that hides the game data's from then on. This is
  `Create` in `Overlay`.

### Fairness

A thread inside a call is scheduled again and again (`WF_vars(Step(t))`); system calls
and memcpy end. Nothing is assumed of threads outside a call, nor of which waiter gets the mutex:
`std::shared_mutex` gives no such promise, so that *every* waiter is served in the end is
not claimed. What is claimed, `LockReleased` and `MutexReleased`, is that who got
the lock gives it back.

A caller inside a lookup, a load or a creation is scheduled again and again too (`WF_vars(Step(c) /\ Track)`, the
step with the history variables, and `WF_vars(Step(c))` in `Directories`): file system calls return and loaders are taken to
end. Nothing is assumed of the other programs, which may make and remove files between any two steps, for ever.

## What is proved

All of it for every value of the constants, under the assumptions the modules name. Where a theorem has a condition beyond
those, a run or another theorem shows that it cannot go; that a set is finite, where a theorem counts its members, is the exception.

### The arithmetic: `ViewArithProofs`

From `HalfWord` and `Granularity` being positive:

* `AllowanceFits`, `SeekLands`, `SeekReaches`: the allowance, that a seek ends in the view wherever the cursor was, and that a seek
  forward from the start or the end reaches the position asked for. This is what the run `arith` checks with a small word; its two
  invariants belong to a driver of TLC's, and are themselves not theorems.
* `ReleaseMatchesMap`, `MappedPagesHoldView`: what is unmapped is what was mapped, and the pages
  mapped reach the end of the view.
* `RelativeSeekStays`, `ZeroLengthIsNotReleased`, `WrappedRequestIsGranted`: three of the disagreements above.

### Threads on one view: `ViewProofs`

For any set of threads, length of the view and operations, and any arguments that do not wrap, that is, assuming that
`NoThread` is not a thread, the view is shorter than 2^63, and no request or seek wraps (of requests that do,
`WrappedRequestIsGranted` says what happens):

* `TypeCorrect`, `MutualExclusion`, `CursorStaysInView`, `TransfersFollowCursor`: `Spec` implies
  always `TypeOK`, `LockDiscipline`, `CursorInView`, `TransferFollowsCursor`.
* `LockingCallsAreAtomic`: with only `read`, `write` and `seek`, `Spec` implies `ImplementsAtomicStream`, the whole refinement.

None of the four invariants is inductive alone. That a transfer stays inside the view needs the cursor to be inside
when it starts; that the cursor is inside afterwards needs the range to have stayed under it meanwhile;
that needs the lock. `IInv` is their conjunction with `CallShape` (what the program counter says of the locals
of a call, and that a seek settles inside the view). `LeaveInv` and `StartTransferInv` treat what several
actions share, `StepInv` has a step per action and below it one per conjunct.

The refinement follows from the same invariant: one thread at most is past the door (`Inside`), so the mapping shows the
view as that thread will leave it (`Shown`), and only getting the lock and leaving change what it shows. That the operations are the
locking ones is needed: `read_from` and `write_to` race with the others byte by byte.

### Files and mappings: `MappedFileProofs`

For any number of files, views and callers inside `get_view` at once, any file sizes,
offsets and page size, and whether or not the path is removed and made again:

* `TypeCorrect`, `HandlesLiveAsLongAsNeeded`: always `TypeOK` and `HandleLifetime`. The invariant adds
  `FreeViews`, that a `View` not in use holds no reference: `get_view` overwrites that field.
* `TeardownIsExact`, `NoMappingLeaks`: if no caller asks for a view of length 0, always
  `TeardownExact` and `NothingLeaks`. The invariant, `Mappings`, is that a mapped view has the pages `mmap` was asked
  for and any other view has none; `ReleaseMatchesMap` then makes `~View` take exactly those.
  The hypothesis cannot go, as `ZeroLengthIsNotReleased` shows.
* `AgreedViewsStayBacked`, `AgreedFilesOnlyGrow`: `WritableViewsBacked` (for lengths to which a page can be added) and `FilesOnlyGrow`, as
  long as `GrowthAgreed` holds: callers that are about to truncate the file the path names agree on its size. The
  invariant `Backing` orders the size of the file against each view: at most the end of a view that is still to grow it, at
  least the end of one that has or need not. Each `ftruncate` keeps that for the other views only if they agree.
* `ViewsStayBacked`, `OpeningNeverShortens`: the same with one caller inside `get_view` at a time, where `GrowthAgreed` is no
  condition. It cannot go altogether: `mapped_race` is two callers that do not agree.

### Platform files: `PlatformFileProofs`

For any number of threads, handles, inodes and calls, any sizes and page size. `IInv` says what the program counter of a
thread knows: its view is the one its call asked for (`InOrder`), its file stays open and is the one the path names (`OneInode`), what it has
loaded is a cursor or a seek's target (`Loaded`), and the mutex of a handle is held by exactly the transfers that are inside, in their mode (`Locks`).

* `TypeCorrect`, and `TransfersExclude`: an exclusive transfer is alone on its handle.
* `WritesAreSynced`: always `ReturnedWritesAreSynced`, if msync does not fail (nobody looks at its result). `Unsynced` adds that
  only the inode the path names has bytes not on disk; the pages a flush covers hold all that its write moved.
* `AgreedHandlesNeverFault`: always `WritableHandlesNeverFault` as long as `GrowthAgreed` holds, by the `Backing` of `MappedFile`, whose views
  are the threads here.
* `CursorStaysInFile`: also as long as nobody is in a seek while a transfer is under way on the same handle (`SeeksApart`), the cursor of a
  writable handle stays in the file, and `read` and `write` work on the bytes behind it. `CursorFollows` has three parts: what a
  transfer at the cursor has read of it is still true, a seek's target is inside, the cursor is inside.
* `AgreedTransfersAreAtomic`: `Spec` implies `ImplementsAtomicFile`, the whole refinement, for writable handles, as long as
  `GrowthAgreed` holds and nothing else runs on a handle from the first store of a seek until it has returned (`SeeksAlone`). `HiddenStep` shows
  which steps change nothing (all but those that follow), `ResizeRefines` that growing is `Extend`, `CopyRefines`, `SeekRefines`, `ReturnRefines` and `OpenRefines`
  that the memcpy, the first store of a seek, leaving (by an exception as well) and opening are the atomic file's own; `AdvanceRefines`, that the store
  of the cursor is what `Copy` already showed, needs the cursor not to have moved in between.

  `GrowthAgreed`, `SeeksApart` and `SeeksAlone` speak of what callers do; `mapped_race` and
  `platform_seek` show the code does not enforce them.
* `WritesNeverFault`, `CursorNeverLeavesFile`, `TransfersAreAtomic`: the same three without those conditions where they always hold. One is a
  single thread, with any number of handles and any calls (the run `platform_sequential`). The other is a single
  handle that any number of threads share, without `seek` (which the first of the three allows), if the calls of `read_from`, which
  only share the mutex, end at the same place (`ReadersAgree`; the run `platform_shared`). Then two transfers that grow the
  file are never in `open_mapping` together, or they grow it to the same size. Writable handles are still a condition of the last: through a read-only
  one a view may lie past the end.

* `CallsKeepToStorage`: `Spec` implies `Storage!Spec`, that is, `PlatformFile` composed with the file it uses keeps to the `MappedFile`
  that was modelled and proved about alone: the views of the threads are its views, opening and releasing them its
  own actions, and all that only concerns cursors and mutexes are stutters. It needs calls that ask for at least one byte
  (`NoEmptyCalls`: a call of zero bytes asks for a view of length 0, which maps the file and never unmaps it) and finitely many
  threads (`MaxOpening` is their number).
* What `MappedFile` promises is hence promised here, and is proved of `Spec` itself, mostly without those conditions:
  `HandlesOutliveCalls` (its `HandleLifetime`), `CallsTearDown` (`TeardownExact` and `NothingLeaks`, of calls of at least one byte), and
  `AgreedCallsKeepFile` and `CallsKeepFile` (`WritableViewsBacked` and `FilesOnlyGrow`, under the conditions of `AgreedHandlesNeverFault` and
  `WritesNeverFault`).

### The Windows build: `WindowsMappedFileProofs`

For any number of files and views opened at once, any sizes, offsets and granularity:

* `TypeCorrect`, `HandlesLiveAsLongAsNeeded`: always `TypeOK`, `HandleLifetime`.
* `NoMappingLeaks`: always `NothingLeaks`. The invariant says where `view_pointer` stands: `page_delta` bytes into the mapping of a mapped
  view, nowhere for any other, which has nothing mapped. The address `~View` works out is then that of the mapping.
* `ViewsStayBacked`, `FlushCovers`: if no length asked for is so large that adding a granularity wraps, always `ViewsBacked` and
  `FlushCoversMapping`. The invariant relates the section to the file (which only grows while a section is open) and the mapping to
  the section.

### Lookups and directories

`StorageServerProofs`, for any mounts, paths, hash function, callers and files that come and go:

* `LookupImplementsOverlay`: `Spec` implies `ImplementsOverlay`, the whole refinement. The inductive invariant `LookupSound` says that none of
  the layers a running lookup has passed has held the key all along: each was seen without it. A step of the lookup
  is then a stutter, or a hit on a layer below passed ones, or a miss below all of them. That the same mount is asked by name and
  by hash, and the hashes twice, makes "passed" a matter of positions in `Stack`, which is most of the proof.
* `QuietLookupsAreExact`: what the `Overlay` comes to when the files looked for hold still (`QuietSearchesAreExact`): the answer is exactly the
  topmost layer that holds one, `nullptr` exactly when none does. It follows from the refinement, so an
  `Overlay` that allowed too much would not prove it.
* `LookupsDrawToAnEnd`: each step of a lookup lowers `Remaining`, which is bounded by the number of mounts, and no step of anybody else changes
  it. With `LookupReturns`, which TLC checks, it says why lookups end: nothing others do to the files makes them start over.
* `TypeCorrect`, and `MountingKeepsPrecedence`.

`ArchiveSystemProofs`, for any directories, links without cycles, loaders, callers and files:

* `LoadImplementsOverlay`: the refinement, again by what was passed. In addition the invariant must say, within one
  directory, that the place reached lies on the chain of links that leads to the target, and that what was opened there was
  refused by the loaders tried so far, so that a file nobody takes is no reason to hold the directory.
* `QuietLoadsAreExact` and `LoadsDrawToAnEnd`: as for lookups. `Remaining` counts directories, links to follow (by the rank that
  `LinkAssumption` gives each link), the check, the opening and the loaders; it is bounded when there are finitely many places.
* `TypeCorrect`, `RegisteredOnce`, `FirstLoaderMakesIt`.

`DirectoriesProofs`, for any finite or infinite tree without infinite ascent, any links that lie in its root, callers and other programs:

* `ExistingIsLeftAlone`, `ServerGetsUserland`, `NullIsALostRace`, `ThrowsIfBlocked`, each a property of the run. A test says nothing
  once somebody may have removed what it found, so the invariant `CallSound` holds only under `Kept`, that nobody removes directories on
  the way: then a directory that was there at the start still is, the component above the one to be made
  next is a directory, and the constructor of a server never leaves its first test. `StepDoes` splits a step of a caller into going
  on (`Goes`) and ending (`Ends`); the theorems rest on what an ending says of the tree, or of the system's refusal.
* `CallsGoForward`: `Phase` never falls, and where it stays, the component made next is one below the last. So no call asks
  `create_directories` more than twice, nor makes a component twice in one of them, however often others remove it.
* `TypeCorrect`.

### Only model-checked

* Liveness, which is out of the prover's reach: `LockReleased`, `MutexReleased`, `CreateReturns`, `LookupReturns`, `LoadReturns`. Of the
  last three the safety half is proved: `CallsGoForward`, `LookupsDrawToAnEnd`, `LoadsDrawToAnEnd`.
* `AllowanceIsWhatFits` and `SeekLandsInside`, whose content is `AllowanceFits`, `SeekLands` and `SeekReaches`.

Every other property of the passing runs is a theorem. The two violations are TLC's, as a counterexample is no theorem.

## Plan

Every component with control of its own is modelled. Left to do: `PlatformFile` over `WindowsMappedFile`, whose section is
part of the file for as long as it is open, so that two handles of one file may do without `GrowthAgreed`; and an abstract
specification of a `File` and its views that both builds implement.

## Not modelled

* `common/View.cpp`, `common/File.cpp`, `common/Directory.cpp`, `POSIX/View.cpp`, `POSIX/File.cpp`, `Windows/View.cpp`,
  `Windows/File.cpp` directly under `source/`: superseded copies that the build does not use.
* Export macros, aliases, CMake files: no behaviour. Tests: read as documentation.
* `get_data_pointer`: what a caller does with the raw pointer is the caller's.
* A `ReadExecute` or `Execute` handle is a read-only one here; execution has no effect on the state.
* `directory_count`, `file_count` and the getters only read. `get_file_typed` is `get_file` with another file type.
* Changing mounts, directories or loaders while a lookup or load runs, from another thread or from a loader: undefined in the code.
* Links that change, or lie below other directories; `create_directories` looks for what is missing in one step (`Scan`).
* In `StorageServer` a mount is asked in one step; the steps inside are those of `ArchiveSystem`'s `Check` and `Open`.
* In `StorageServer` and `ArchiveSystem`: a file that is there and could be opened but is refused for a moment (no descriptor), which a
  lookup would pass over, and the exceptions of `std::filesystem` that leave a lookup or load half way. What the system refuses is in
  `Directories`, of a single call.
* In `PlatformFile`: the path being removed or made again while handles are open, whose effect on views is in `MappedFile`.
* Hazards in PROJECT.json that no property covers have a note: there the code does what is feared, or leaves it to its callers.
* Loss of data in a crash: the models know what was not yet written back (`dirty`), but no restart.
