# A verification of ANGLE's object and lifetime management

ANGLE implements OpenGL ES and EGL on top of Direct3D, OpenGL and Vulkan. Most of its
450,000 lines translate: shaders, formats, state into driver calls. What is hard to test is
what keeps state over many calls: names, reference counts, the objects that threads and
contexts share, and resources that a GPU still uses after the client has let go of them.
These modules model that part, translated from the source; `PROJECT.json` gives the lines
of each definition.

## The system

| Part | State it keeps | Operations | What is hard, and what should hold |
|---|---|---|---|
| `HandleAllocator` | sorted list of unused name ranges, heap of released names | allocate, release, reserve, reset | Any order of calls keeps the list searchable; no name is lost or given twice. |
| `HandleRangeAllocator`, `PathManager` | map of used ranges; path objects | allocateRange, allocateAtOrAbove, markAsUsed, releaseRange; createPaths, deletePaths | GLuint wraps; ranges merge and split; the driver may refuse after names were taken. |
| `ResourceMap` | flat vector and hash map from names to objects | assign, erase, query, contains | The vector grows; a slot is empty, reserved or filled. |
| Resource managers, `State` bindings | reference counts, bindings per context, share groups | gen, bind, delete, context creation and destruction | A name is deleted and reused while another context has the old object bound. |
| `Display`, `Context`, `Surface`, `Thread` | current context per thread, current surface per context, current counts, texture share group | the EGL calls | Objects destroyed while current; calls that fail half-way. |
| `Texture` and pbuffers | mutual pointers between texture and surface | eglBindTexImage, eglReleaseTexImage, texture deletion and redefinition | Each side goes first in some order. |
| `RendererVk` | recording, commands in flight, fences, garbage, serial per object | draws, uploads, frames, deletion | The GPU completes at any time; a handle must outlive the commands that use it. |
| Shaders, programs, program cache | reference counts, deferred deletion, MRU list | attach, detach, delete, link | Deleted while attached or in use; the cache at its limit. |
| Framebuffers, signal channels | cached completeness, dirty bits, receivers | attach, signal, sync | A cached answer after an attachment has changed. |
| Buffers, transform feedback | mapping, index-range cache, active flags, the program held | map, unmap, draw; begin, pause, resume, end | A cached range after a write; a program relinked while captured from. |
| Worker threads | tasks, waitable events | postWorkerTask, wait | Completion races waiting. |
| Translator, stateless validation, format tables, EGL images and streams, queries, most of the D3D and GL back ends | | | Outside: see *Not modelled*. |

The managers use `HandleAllocator` and `ResourceMap`; contexts share managers; `Display`
owns contexts, surfaces and the global texture manager; a renderer implements each object.

## Modules

* `HandlePool` — what a name allocator promises. `HandleAllocator` — the class: variables
  `mUnallocatedList` and `mReleasedList` are its fields, one action per method, `inUse` and
  `taken` are history variables. The heap is the set of its elements: reserve's `erase`
  breaks the heap order, so any element may come first.
* `RangePool` — what an allocator of contiguous names promises. `HandleRangeAllocator` —
  `mUsed` is the `std::map` from first to last name, a GLuint has `Width` bits, `Extend`,
  `Prepend` and `Trim` are the merging and splitting code. `PathManager` composes it with
  the path objects.
* `ResourceMap` — the two-part map as operators. `ResourceManager` — a share group:
  allocator (instance of `HandleAllocator`), map, buffers with counts, contexts with their
  binding points. Buffers stand for the kinds with the same manager (`TypedResourceManager`).
  `SetSlots` is `BindingPointer::set`: `addRefs`, then `releaseRefs`. In that order nothing
  reaches 0 that is bound again; in the other a buffer whose only reference is the slot would
  go, but a slot is only ever set to a buffer that the name map still holds, so no run could
  tell the orders apart and no property claims to.
* `Display` — one EGL display. One EGL or GL call is one step, written as a change of a
  world record so that a call can fail half-way (`ok`) and keep what it has done, as
  `ANGLE_TRY` does. A surface whose release fails is left `torn`: its default framebuffer and
  its implementation are gone and it is not.
* `RendererVk` — one Vulkan queue. The client's calls are steps; the GPU is a process of
  its own (`GpuCompletes`). An object has one handle; `recording` is the set of handles the
  commands being recorded use. A framebuffer has a texture attached or is the default one of
  a window. The vertex array caches the handle of its buffer; a draw may sample a texture,
  whose handles go into the descriptor set. A new handle is one that no command, cache or
  garbage names (`Named`), so that a use of a destroyed handle stays visible.
* `Texture` — the images of a 2D texture, with what the code believes of them (`initState`)
  and, as a history, what their memory holds (`contents`). `Framebuffer` — contexts that
  share textures and attach them, each to a framebuffer with its cached status, dirty bit,
  channel and needs-init bit. A change of a texture and all the signals it sends are one
  step, as the channel calls its receivers directly.
* `Program` — the shaders and programs of a share group. `Buffer` — a buffer with its cache
  of index ranges. `TransformFeedback` composes both with contexts, their current programs
  and transform feedback objects. Its `history` is not in the code: it records what the code
  takes no notice of (below).
* `SizedMRUCache` — the cache as operators. `MemoryProgramCache` — compiling and linking a
  program with the cache and, on Direct3D 11, with worker threads: the linking thread
  (`LinkCompiles`, `WaitMany` once per event, `LinkEnds`), each task's thread and EGL calls on
  the cache are separate processes. `HashOf` flattens the attribute and the uniform bindings
  into one string as `HashStream` does, so that different programs may have one key. A wait
  returns at once for an event without a future. `stale` is not in the code: see below.
* `FiniteCounting` and `*Proofs`, `DisplayLemmas` — the theorems.
* `MC*` — instances for TLC.

## Runs

| Run | Instance | Shows |
|---|---|---|
| `handle_allocator` | 7 names | Sorted ranges, every name free once or in use, refinement of `HandlePool`. |
| `handle_ranges` | 3-bit names, used by the path manager or by any caller | The stored ranges are the maximal runs of used names; refinement of `RangePool`; `hasPath` is true only of names that have a path object, also when the driver creates none. |
| `buffer_sharing` | 2 contexts, 2 names, 2 buffers, any name bound | Counts, names, map and allocator agree over all interleavings. |
| `buffer_bindings` | 1 context, 2 vertex arrays, 3 names, generated names only | Exact counts while the flat vector grows. |
| `map_growth_any_name` | 2 contexts, 3 names, any name bound | **Violated**: after a growth `contains` is true of names nobody reserved. |
| `display_current` | 2 threads, 2 contexts, 2 surfaces (one texturable), 1 named texture | Current counts, deferred deletion, default framebuffers, share group, textures and pbuffers, clean termination. |
| `tex_image_rebound` | 1 context, 2 texturable pbuffers, the zero texture | **Violated**: `ASSERT(mBoundSurface)` when both have been bound to the texture in turn. |
| `vk_resources` | 2 buffers, a texture with a framebuffer, 2 windows, one of them drawn to; five clients | With operations that record serials, no handle is destroyed in use; with all others too no leak, no double queueing, commands kept while pending and reclaimed with their fences. |
| `framebuffers` | 2 contexts, 1 texture; two levels, or one level and draw buffers | The cached status is the true one, what needs a clear is known to, and `Initialized` is said of no undefined memory. |
| `programs` | five clients: shaders in 2 contexts; programs, binaries and capture in 2 contexts; capture from 2 programs; a buffer of 3 indices with calls, mappings and capture, or with packed pixels and compute shaders | Reference counts, the installed executable, the program of an active transform feedback, cached index ranges. |
| `program_link` | three clients: two kinds of bindings; three sources (one does not compile); two sizes and two limits | The cache's account and entries are right, no task outlives link, and link returns. |
| `program_cache_update` | the same | **Violated**: an entry is stored under a key that is not its executable's. |

Each property of a passing run has a mutant of the code's model that breaks it. The findings
in `PROJECT.json` quote the lines that the violated runs contradict.

### Where the code does not keep a property

Three forms are used, and each exception was tried: without it TLC finds the property
violated (for the labels of `RendererVk`: with the condition `Tracked` taken out and a client of
`TrackedOperations` and that label). The hazards in `PROJECT.json` give the lines.

*History.* In `TransformFeedback` and `MemoryProgramCache` every call has the code's own
guards and nothing is kept from the clients. A variable that no guard reads records what the
code overlooks, and the property holds but for that:

| Property | Exception | Where it comes from |
|---|---|---|
| ExecutableInstalled | `"untold"`: the current program got a new executable by glProgramBinary, or by a link in another context | `Context::programBinary` tells nobody, although the comment in `State::onProgramExecutableChange` (State.cpp:2345) names ProgramBinary; `linkProgram` tells the calling context only |
| FeedbackProgramKept | `"relinked"` by another context; `"resumed"` while another program is current | `hasActiveTransformFeedback` asks the calling context only; `ValidateResumeTransformFeedback` does not compare programs |
| CachedRangesExact | `"unseen"`: written by glReadPixels into the pack buffer, or by shader stores | `Framebuffer::readPixels` drops the ranges of the unpack buffer; `dispatchCompute` and draws that store drop none |
| EntriesMatchUnlessStale | `stale`: a link with a source given after the compiled one, an update after a change, or an entry loaded from such a one | `ComputeHash` has the present source and bindings, the executable those of the link |

*Labels.* In `RendererVk` and `Framebuffer` the circumstance has a label of its own. The first
three properties of `RendererVk` are for clients within `TrackedOperations`; the other clients
of the run are there for its remaining properties.

| Label | Circumstance | Violated with it |
|---|---|---|
| `drawTextured` | a draw samples a texture: its handles get no serial (ProgramVk.cpp:793) | NoDestroyInUse, SerialRecorded |
| `drawStale` | the vertex buffer's storage was replaced since the attribute was specified (VertexArrayVk.cpp:49): the draw uses the old handle | NoDestroyInUse |
| `drawElements`, `clear` | the element array buffer, or the cleared image, gets no serial | NoDestroyInUse, SerialRecorded |
| `redefineAttached` | the framebuffer keeps the old image's view | NoDestroyInUse, with 7 handles and 6 serials: the run's own bounds are too small to show it |
| `destroyWindowSurfaceInUse` | commands that are being recorded use the window | NoDestroyInUse |
| `createWindowSurfaceInPass` | commands are submitted inside a render pass | RenderPassOpen |
| `misleading`, `baseLevel`, `clearDisabled` | see the properties' comments | NeedsInitKnown, StatusFresh, InitStateExact, in this order |

*Constants.* With `ImplMayFail = TRUE` CurrentCountExact and ShareGroupExact of `Display` are
violated: a call that fails half-way has released some of what it holds. With `OnlyGenerated =
FALSE` and a flat vector that grows, `contains` is wrong: the run `map_growth_any_name`.

### Bounds

Seven names give three ranges at once and each case of reserve; three bits give three separate
ranges and wraparound at the last name. Two contexts are one that deletes and one that still
has the object bound; two buffers are the old and the new object of one name. Three names are
enough for a growth that passes a name not handed out. Two threads and contexts make a surface
current in one while the other's call destroys it. Serials up to 5 allow three submissions
after that of the window, two frames in flight, one complete and one not, which is what
reclaiming by prefix has to tell apart; six handles let each object be replaced while its old
handle waits. A new handle is any fixed unused one (CHOOSE), as nothing depends on which. Two
levels are a mipmap chain, with a level attached and another redefined; one texture is enough
for two framebuffers to share. Three names are two shaders and a program; three indices have
ranges that overlap a write on either side, within and around. One location for an attribute
and one for a uniform make two programs with one key; sizes up to the limits make the cache
evict, replace and refuse. A client in `Clients` is chosen at the start and does not change: it
is a smaller instance, in place of one that has everything at once and is too large. Deadlock
checking is off in the Vulkan run only, where the serials run out.

Symmetry is declared for contexts, buffers, threads, names of programs, and for surfaces of
the same kind; the runs that use it check invariants and action properties only.

Fairness is assumed in `program_link` alone, and weakly: a posted task's thread runs
(`std::async` with `std::launch::async` starts a thread for each, so none waits for another),
and so does the thread in link. Without worker threads the tasks have run when they are
posted. Nothing is assumed of the client or of the EGL calls, which may go on for ever. The
mutant of `LinkReturns` is a pool that leaves a task in a queue although its event has a
future; a task that were not posted at all would have none, and link would not wait for it.

Assumptions on clients are in the modules' heads: a context is current on one thread at
most; a context is not destroyed while another thread has it current; calls on the program
cache do not overlap (it has no lock).

## Proofs

Every theorem holds for all values of the constants, under the named assumptions that the
modules state. `PROJECT.json` lists those that state a property of a run.

* `ResourceManagerProofs`, first part, on `HandleAllocator`: `ListsTypeCorrect`,
  `ListAlwaysSorted`, `NoNameLostOrShared`, and `ImplementsPool`: it implements `HandlePool`.
  The inductive invariant is the conjunction of the three, since none is inductive alone:
  reserve's binary search finds the right range only in a sorted list, it finds one at all
  only if every name that is neither in use nor released is in some range, and the list stays
  sorted only if the cut is made in the range that holds the name.
* Second part, on `ResourceManager`: the five invariants and the action property of
  `buffer_sharing`, for any contexts, names and buffers. `Agreement` is assumed of the
  constants: clients bind generated names only, or the flat vector does not grow
  (`MapMatchesAllocator` needs the second). Without either the code breaks them, as
  `map_growth_any_name` shows. The invariant counts references per holder: the map is one,
  each slot of each context another, so that a step moves single references.
* `DisplayLemmas`, `DisplayProofs`: the eight invariants of `display_current`, for
  `ImplMayFail = FALSE`. A call is a chain of changes of the world record; a lemma for each
  operator says what it keeps of the invariant, and the loops of terminate are folds whose
  order does not matter.
* `FramebufferProofs`: the three invariants of `framebuffers`, for clients without the three
  labels, from an invariant that says of each framebuffer which texture it is wired to, that
  attached textures are alive, and that a status that is not dirty is the status now.
* `PathManagerProofs`: `MaximalRuns`, `PathExists` and the refinement of `RangePool`, for every
  width. The map of ranges is a function of the set of names in use (its maximal runs), so
  each operation is shown to compute the map of the new set; the loop of releaseRange has a
  closed form.
* `SizedMRUCacheProofs`: what the operations of the cache keep, for any entries.
  `MemoryProgramCacheProofs`: `TasksAlwaysJoined`, from an invariant that adds that a task that
  has not ended has a future that link has yet to wait for; `EntriesAlwaysMatchUnlessStale`,
  from one that adds that what is linked, if not stale, has the program's key, and that
  nothing that makes the key changes while link waits; `AccountAlwaysExact`. They have no
  condition but `CacheAssumption`: every call of every client is allowed, and keys collide.

`Counting` (in `FiniteCounting`) is what the proofs use about finite sets; each module derives
it from the library at its end.

Only model-checked: the properties of `RendererVk` and `TransformFeedback`, and `LinkReturns`
(liveness under fairness is out of the prover's reach, like ENABLED).

## Not modelled

* The shader translator (recursive trees), stateless validation of arguments, generated tables
  and entry points, pixel conversion: transformations of data without state between calls.
* EGL images and streams, queries and fences, image units, samplers, program pipelines.
* The display's proxy context, through which a surface is destroyed when none is current. In
  `Display::terminate` it is gone before the last surfaces are (Display.cpp:510).
* Of framebuffers: depth and stencil, several attachments, renderbuffers, blits, multiview. Of
  textures: other kinds than 2D, formats, the maximum level. Of programs: matching of
  interfaces, uniforms and blocks (link succeeds or fails).
* Of the back ends: the OpenGL and null ones, Direct3D but for the compilation of programs,
  and in Vulkan the pipelines, the programs' uniform buffers, semaphores and failing calls.
  Reclaiming Vulkan garbage eventually is not stated: the model's serials are bounded.

`PROJECT.json` lists every part with its reason.
