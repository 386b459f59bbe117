# Formal models of tp_sisop

The repository is CarpinchOS, a distributed exercise in C: processes that link
*matelib* (the "carpinchos") talk over TCP to a **kernel** that schedules them
and gives them semaphores and I/O devices, to a **memoria** with paging, TLB
and a heap, which in turn keeps the pages it evicts in a **swap** process.
This directory models the parts whose correctness depends on interleaving, in
TLA+; TLC checks small instances and TLAPS proves some results for all.

## 1. Inventory

| Component | Sources | State it keeps | Operations | Talks to |
|---|---|---|---|---|
| Scheduler | `kernel/src/planificador_{largo,corto,mediano}.c`, `kernel.c` | seven lists of carpinchos, `multiprogramacion_disponible`, `multiprocesamiento`, flags in each `t_proceso`, a dozen POSIX semaphores | arrival, admission, dispatch, block, suspend, wake up, exit | every thread of the kernel |
| Notification | `kernel.c` `avisar_cambio`, `proceso.c` `proceso` | three semaphores, `cantidad_de_procesos`, a remembered status per thread | a round at each move | the thread of each carpincho |
| Semaphores and resources | `proceso.c`, `planificador_largo.c` | `lista_semaforos` with queues, `lista_recursos_asignados`, two mutexes | init, wait, post, destroy, release at exit | scheduler, detector |
| Deadlock detector | `deadlock.c` | none of its own | search for a cycle, pick a victim | semaphores, scheduler |
| Connections, tasks, I/O | `planificador_largo.c` `atender_proceso`, `proceso.c` `exec` | a list of tasks per carpincho | receive, execute, relay to memoria, timed I/O | matelib, memoria |
| Console, start, shutdown | `kernel.c` | `terminar_kernel` | set-up and debug | all |
| memoria | `memoria/src/` | frame table, page tables, TLB, clock and LRU stamps, heap headers inside pages | init, alloc, free, read, write, suspend, dump | kernel or matelib, swap |
| swap | `swap/src/` | files, the assignment of pages to files | save, read, free | memoria |
| matelib | `matelib/src/matelib.c` | a socket and `desconectado` | one request and its answer at a time | kernel or memoria |
| shared | `shared/src/` | none | sockets, messages, configuration | all |
| Test programs | `carpinchos-pruebas-/`, `test/` | | examples of use | |

What is hard, and where, is the list `hazards` of `PROJECT.json`. In short:

* *Planners that sleep on counted posts.* A post makes a planner do one step;
  every change that enables a step has to leave one.
* *Flags and posts set by different steps* (`block`, `salida_block`,
  `salida_exit`), served by whoever finds them first.
* *A thread outside the lock.* The medium term planner takes no `mutex_listas`.
* *Anonymous rounds.* `avisar_cambio` counts posts, not threads.
* *Two mutexes in two orders*, around queues whose heads are trusted.
* *Windows* between asking to wait and being in `lista_blocked`.
* *One socket for all.* The exec threads relay to memoria over one socket
  without a mutex, and read whatever comes first.
* *Two views of a page.* Page tables, the lists of replacement, the TLB and
  what swap has are changed one after the other, and half a request is served
  when swap refuses a page.
* *Busy waits inside locks.* `postear_semaforo` turns until nobody is on its way
  to `lista_blocked`, and `hilo_salida_a_exit` does so under `mutex_listas`.
* *Ends.* A carpincho leaves by itself, is killed or is chosen by the detector
  while its requests are in a socket, in a list of tasks or in a queue.

Per component, what makes it correct:

* scheduler: the life cycle of a carpincho, exact counters, no request to be
  blocked lost, no planner asleep while it has work;
* notification: each round ends, all have looked when it ends, each dispatch
  starts an exec thread (it may not), each exit ends its thread;
* semaphores: value and queue agree, each blocked carpincho waits in one
  place, a mutex has one holder, an exit leaves nothing behind;
* detector: a deadlock is found, what it takes for one is one (a single search
  does, a whole pass may not), the exit it asks for leaves nothing behind
  (it may);
* memoria: a page is in memory or in swap, in a frame of its own; TLB, counts
  and lists of replacement agree with the table; the victim is the one the
  algorithm says; requests end;
* swap: a frame holds one page, files do not overflow, what was written of a
  page is where its entry says, what was saved stays until it is asked for (it
  may not);
* matelib: each request has one answer and it is its own.

## 2. Modules

| Module | Models |
|---|---|
| `CicloDeVida` | abstract: what the scheduler promises of a carpincho |
| `Planificacion` | the scheduler; implements `CicloDeVida` |
| `AvisarCambio` | the round of notification and the thread of each carpincho |
| `Semaforos` | semaphores, assigned resources, their two mutexes, the release at exit |
| `DeteccionDeadlock` | the detector and the exits it asks for, over `Semaforos` |
| `Pedidos` | matelib, the sockets, `atender_proceso`, `exec`, the relay to memoria, the exit |
| `Almacen` | abstract: what swap promises to memoria |
| `Swap` | the swap process; implements `Almacen` |
| `Memoria` | tables, frames, TLB, replacement; relies on `Almacen` |
| `Listas` | the loops over lists of the commons library that several modules share |
| `*_proofs` | the theorems about `Planificacion`, `Semaforos` and the detector, `AvisarCambio`, `Pedidos`, `Swap`, `Memoria` and `Listas` (section 4) |
| `MemoriaMarcos_proofs` | the second half of those about `Memoria`, after its types: pages, frames, lists, TLB and swap |
| `MC*` | for each of the detailed modules, the instances for TLC |

The three modules of the kernel's lists and semaphores cut it along its locks,
and each replaces the others by the least it needs of them. `Pedidos` cuts it
the other way, along a request, and `DeteccionDeadlock` extends `Semaforos`.
`Swap` and `Memoria` meet in `Almacen`: `Swap` is shown to implement it, and
`Memoria` takes its actions, through INSTANCE, for the other end of its socket.

### Planificacion

The lists are sequences of carpinchos; a flag of `t_proceso` is the set of
those that have it. A section under `mutex_listas` is one action unless a thread
that does not take it (the medium term planner, an exec thread, a receiver, the
detector, the timer of an I/O) can come between a read and its use, or between
two effects that it tells apart. A flag and the post that announces it are
always two steps.

* `planificador_largo_plazo`: `LargoAdmite` (the move), `LargoCarga` and
  `LargoGuarda` (the two halves of `multiprogramacion_disponible - 1`, which
  no common mutex protects);
* `planificador_mediano_plazo`: `MedianoLee` (the three sizes),
  `MedianoMueve`, `MedianoCarga`, `MedianoGuarda`;
* `salida_de_block`: `DesbloqueoLee` (the two sizes), `DesbloqueoBusca`,
  `DesbloqueoMueve`;
* `esperar_bloqueo`: `EsperarBloqueo` (the post and the count down of
  `procesos_esperando_bloqueo`), `BloqueoMueve`;
* `hilo_salida_a_exit`: `SalidaEntra` and `SalidaTomaRecursos` (its three
  mutexes, the last of which comes with `SalidaBusca`), `SalidaBusca` (all the
  lists but `lista_blocked`), `SalidaBuscaBlocked`, `SalidaMueve` (the move and
  the requests, which it may miss), `SalidaLibera(p)` (a resource that wakes p
  up) with `SalidaDespierta` (the busy wait of `postear_semaforo`, the flag and
  the post, still under `mutex_listas`), `SalidaSuma`;
* `exec` on a semaphore: `SeccionEntra` and `SeccionTomaRecursos` (the two
  mutexes, in the other order), `Postea` (the first of the queue is taken out),
  `PosteaTrae` (the busy wait, then the flag, or the `exit(1)` when the
  carpincho is not blocked), `PosteaAvisa`, `SeccionSale`;
* `exec` into `bloquear`: `MarcaBloqueo`, `PosteaBloqueo`; `ExecTermina`;
* flags set outside every mutex: `Desconecta` (`atender_proceso` on a closed
  connection) and `FinIO`, whose posts are `LlegaPosteo`; `EligeVictima` (the
  detector's recovery) and its post, `DetectorPostea`;
* one action each: `Nuevo` (`nuevo_carpincho`), `Corto` (both short term
  planners: which of the ready ones the estimations choose is left open).

`caido` is the end of the kernel: an `exit(1)` or a `NULL` that is read
through. `solapada` and `sobrantes` are history variables for the accounting.
A `list_remove` within a list is one step: the model has no torn lists.
`avisar_cambio` is the three posts it ends with; the round before them is
`AvisarCambio`. Who waits for whom on which semaphore is abstracted to
`espera[p]`, and whether an exit takes all the requests of a carpincho out of
the queues is left open: the queues are `Semaforos`.

### AvisarCambio

`mutex_listas` lets one mover through at a time, so all those that hold it are
one actor, `"listas"`; the medium term planner is another. A
move starts one round, an exit three, and between the first and the second
`cantidad_de_procesos` goes down (`Resta`, outside `mutex_cant_procesos`).
Each iteration of each loop of `avisar_cambio` is a step, because it reads
`cantidad_de_procesos` again. The thread of a carpincho: `DespiertaHilo`,
`Mira` (the `switch`), `Anota` (the second read of the status), `Vuelve`.
`pendiente` holds the carpinchos moved to EXEC that have no exec thread yet,
and `interrumpida` is history: `cantidad_de_procesos` changed while somebody
was in a round.

### Semaforos

`lista_semaforos` and `lista_recursos_asignados` are sequences of records with
the fields of the structs. `traer_semaforo` is the relation `EsIndice`. An
exec thread takes a task (`TomaTarea`), then the two mutexes, and does all of
`Solicita`, `Postea` or `Destruye` in one step while it holds both;
`iniciar_semaforo` takes none and is two steps. `hilo_salida_a_exit` takes
the mutexes in the other order and its two loops go one iteration per step,
with the indices as the code advances them.

A post writes down, for the carpincho it wakes up, the pointer to the name
that came with the request, and `exec` frees it at once. Such an entry has the
name `Colgado`: what a comparison with it gives is left open (`Lee`).

`Sumado`, the value after a post, has the two branches of the code: with a
negative value somebody waits and the head leaves the queue, otherwise nobody is
removed. In and out of `lista_blocked` is one step here, so nobody is ever on
the way and the busy waits of the posts end at once; the windows and the busy
waits are in `Planificacion`.

### DeteccionDeadlock

A pass of `algoritmo_deteccion` is one step (`Detecta`): it holds
`mutex_recursos_asignados` throughout, without which no queue and no resource
changes. The search is written call by call (`UnaLlamada`, `ProcesoEnDeadlock`,
`AnalizaCola`) with what it carries from one carpincho of a queue to the next.
The reference it is compared with, `Abrazados`, is the set of carpinchos that
wait for each other, and does not share anything with it.

`hilo_salida_a_exit` is that of `Semaforos`, here with the posts it waits for
and the flag it looks for. A name that was freed (`Colgado`) reads as any name
or none (`Lecturas`): after a post handed a semaphore over the search may miss
a deadlock or see one that is not there. `colgo` is 0 until then.

### Pedidos

Follows a request from the call of matelib to its answer. The carpincho:
`MateInit`, `Llama`, `Recibe` and the ends of its program. The kernel: one
thread reads (`atender_proceso`), which queues a task for the exec thread of
the carpincho or, on a closed connection, asks for its exit; `exec` confirms,
blocks or relays. `MemoriaAtiende` is the other end of the relay, or the
server itself when there is no kernel.

A packet is its code and the number of its request; sockets are queues. When a
carpincho closes its connection the server learns it in two steps, as in TCP:
the first packet sent afterwards is lost and comes back as a reset, the second
is the `SIGPIPE` that ends the kernel. The relay reads a packet in two steps
(`lee_codigo`, `lee_resto`), since nothing keeps another exec thread from
reading in between; `caido = "cruce"` is two threads with parts of one packet.
`caido = "salida"` is the loop of `hilo_salida_a_exit` that frees the tasks of
an exit without advancing.

What other modules show to be possible is left open here: a dispatch may start
no exec thread (`NoEmpieza`, as `AvisarCambio` shows), and the wake-up after an
I/O may be lost (as in `Planificacion`). `exec` uses the socket of memoria twice
when it believes that there is none, as two steps (`ExecPideMemoria`,
`ExecSinMemoria`): the start of the kernel may connect in between, and the exec
thread then waits for an answer that nobody owes it.

### Swap and Almacen

`tabla_marcos` and `lista_paginas_almacenadas` are sequences of records with
the fields of the structs; a file is what was written at each of its places. One
request of memoria is one step, with the order in which frames are looked for,
assigned, reserved and freed, and the list of mappings that grows as files
happen to be empty. `FIJA` asks for frames as process 0, as the code does.

What is written of a page is not its contents: `strlen()` decides how much
of them, less when they hold a zero byte, more when they do not (`Escritos`),
and with the pseudo headers a text may be longer than its frame (`Largos`): it
then goes over what follows (`Basura`), or swap ends while it stores
(`Caido`). With `FIJA` the bytes copied are those of a pointer (`Basura`).

A page that is not there is no answer (`Silencio`) or an uninitialised pointer
(`Perdido`). `eliminar_pagina` compares the number only, so the elimination of
one page may take those of others: `perdidas` is history that says so, and
`en_swap` the history of what memoria saved and did not ask back.

`Almacen` is what remains of it for memoria: a set of pages, and for each
request the answers that may come. That `Swap` implements it
(`ImplementaAlmacen`) is checked by TLC and proved.

### Memoria

`mutex_memoria` lets one request in at a time (`operacion`), so a request is a
list of the pages it goes through and its state. The allocator decides which
pages those are by the headers in their bytes; here any list a request can
have is tried: `MemAlloc` (up to three new pages for the first allocation, two
for the others), `MemFree` (the header it reads may name any pages, also one
after the last) and `MemLeeEscribe` (any run of pages, up to the one after
the last). For each page: a hit in the TLB or in the table
(`Accede`, `Recorre`), a frame that is free (`ConMarcoLibre`), or a victim
(`ReemplazaLRU`, `ReemplazaClock`) that goes to swap (`Guardada`,
`NoGuardada`), and the page that comes back (`Pide`, `Trajo`). A page that
cannot be had ends a request in the way of its caller: the first header
(`FallaPrimerHeader`), the footer (`FallaFooter`) and the chain of headers
(`FallaCadena`), which go on as if it were there or use the error as a pointer,
or the error answer. With swap gone (`Terminado`) every save fails. The signal
that cleans the TLB (`LimpiaTlb`) comes at any time. The variables that the code
does not initialise start with any value: `isFree` with dynamic assignment,
`ultimo_Clock` with fixed assignment and clock (`Manos`).

`caida` is an invalid access: memoria ends there or goes on over memory that it
spoilt, and the model stops. It is reached by the clock with dynamic assignment,
whose list is NULL; a page beyond the table; `restarTamanioaPagina`, which
moves the page pointer itself (`Corrompe`); the release of a packet that was
never initialised (`LiberaSinIniciar`); a clock whose last page left. `cruces`
counts how often `actualizarLRU`, which compares page numbers without the
process, took out the page of somebody else.

## 3. What the runs check

| Run | Instance | Result |
|---|---|---|
| `planificacion_listas` | 2 carpinchos, degrees 2 and 1, I/O, one suspension, exits from every list | pass: `TypeOK`, `MultiprocesamientoExacto`, `LargoDespierto`, `CortoDespierto`, `BloqueoNoSePierde`, `ContabilidadMultiprogramacion`, `ImplementaCicloDeVida` |
| `planificacion_traer` | 2 carpinchos, 2 processors | **violation** of `TraerEncuentra` |
| `semaforos_colas` | 3 carpinchos, 1 name; every operation and one exit, and disciplined ones on a mutex, one of which may leave | pass: `TypeOK`, `ValorYSolicitantes`, `BloqueadoEnUnaCola`, `UnaUnidad` |
| `avisar` | 2 carpinchos; quiet, with two exits, with a round of the medium term planner; fair | pass: `TypeOK`, `RondaCerrada`, `LecturaEstable`, `RondaTermina` |
| `avisar_despacho` | 2 carpinchos, quiet | **violation** of `DespachoEjecuta` |
| `deteccion` | 4 carpinchos, 2 semaphores of value 1 and exits of all but one, or 3 semaphores and waits only | pass: `BusquedaCierta`, `DeteccionCompleta` |
| `deteccion_falsa` | 5 carpinchos, 3 semaphores of value 1, waits only | **violation** of `DeteccionCierta` |
| `deteccion_salida` | 2 carpinchos, 2 semaphores | **violation** of `SalidaLimpia` |
| `pedidos` | 2 carpinchos, two requests each; 1 or 2 processors, a kill, a victim, memoria alone | pass: `TypeOK`, `UnaRespuesta`, `RespuestaPropia`, `KernelSobrevive`, `SinTareasFueraDeExec` |
| `swap_paginas` | 3 pages of 2 processes, 2 files of 1, 2 or 4 frames, both assignments, texts that fit and texts that do not | pass: `TypeOK`, `MarcoExclusivo`, `EspacioExacto`, `MapeoExiste`, `ContenidoFiel`, `ImplementaAlmacen` |
| `swap_perdida` | the same pages, files of 4 frames, global assignment | **violation** of `GuardadaHastaPedida` |
| `memoria_paginas` | 2 processes; LRU and clock, both assignments, with and without TLB | pass: `TypeOK`, `MarcoDeUno`, `CuentaExacta`, `OrdenDeReferencia`, `EnUnSoloLugar`, `TlbFiel`, `RelojConVictima`, `PedidoTermina` |

The violations are disagreements of the code with what it says of itself; each
is a finding of `PROJECT.json`, with the line and the text it contradicts. The
trace for `DeteccionCierta` needs five carpinchos: two wait for the same
semaphore, its holder waits for the holder of another, which waits for the
holder of a third, and that one runs. `lista_recursos_en_deadlock` is created
once for the queue, so the search from the second finds in it what the first
one saw; with a queue of one, or a shorter chain, it does not matter. The
trace for `SalidaLimpia` is `index2`, which is not reset between queues; the
entry of `lista_recursos_asignados` that is skipped after each removal
breaks it as well, in larger instances. The trace for `GuardadaHastaPedida`
saves the page of one number of two processes and asks for one of them:
`eliminar_pagina` removes by number only, and may take the other's.

A configuration file is a variable that no step changes (`escenario`,
`config`, the three of `Swap`), so one run checks several of them.

**Where the properties do not hold.** Some are stated with the condition under
which they hold, or checked in the scenario where they do:

* `RondaTermina` fails with an exit (the carpincho is no longer counted while
  its thread may still owe an answer) and with the medium term planner (an
  arrival changes `cantidad_de_procesos` between two loops of its round), and
  `LecturaEstable` with the medium term planner: both speak of quiet scenarios;
* of `Planificacion` no property says that somebody goes on. A wake-up posted
  before its carpincho is blocked is spent, a flagged carpincho that is suspended
  between the searches of `hilo_salida_a_exit` is in neither list, the head of
  `lista_s_blocked` is taken for the carpincho that was woken up
  (`planificador_mediano.c:76`), the two mutexes are taken in two orders, and the
  busy wait of an exit holds `mutex_listas`, which the count it waits for may
  need. All of these are in the model, and the run reaches them, but for the
  wrong head, which takes three carpinchos. What survives them is
  that a request to be blocked is not lost (`BloqueoNoSePierde`), the exact
  counters and the life cycle, which allows the move of another carpincho;
* `UnaRespuesta` has as an exception the carpincho that was dispatched without
  exec thread, and speaks of a kernel that runs and of carpinchos whose exit
  nobody asked for;
* `ContenidoFiel` is about the global assignment (with `FIJA` what is written is
  a pointer), says what was written and not what memoria sent, and
  allows what a long text spoils;
* `RespuestaPropia` fails with two processors, and with one when the carpincho
  that has it leaves while its exec thread waits for memoria, because the exec
  threads share the socket: the condition asks for one processor, no kill and
  no victim. `KernelSobrevive` fails with a kill: two packets to a closed
  connection end the kernel;
* `TlbFiel` fails with two entries: `agregarTLB` does not look whether the
  page is there, so a page may have two entries and only the first is removed;
  an access may then go to a page that is not in memory (the other invariants
  hold with any TLB);
* the invariants of `Memoria` speak of the time before a cruce of
  `actualizarLRU` (`cruces = 0`) and before swap lost a page (`~perdidas`).
  After the first pages share frames, and after the second a table and swap
  differ. This is a strong condition: with dynamic assignment and LRU, as in
  `memoria.cfg`, a cruce is what happens when two carpinchos use pages of one
  number, as two that allocate do. The properties then say that one
  carpincho, or several of which only one is touched again, is served well;
* `BusquedaCierta` and `DeteccionCompleta` speak of the time before a name was
  freed (`colgo = 0`), when they fail. `BusquedaCierta` is about a search that
  starts with nothing seen, as that of the first of a queue does; and, with
  three semaphores, it fails when an exit left something assigned to a
  carpincho that is not there any more (`QuedanRestos`), through which a chain
  may go. That the others go on after the exit is not claimed: an exec thread
  and `hilo_salida_a_exit` take two mutexes in opposite orders, and each may hold
  one of them and wait for the other.

**Bounds.** `MaxAvisos` caps the pending posts of `cambio_de_listas_*`: the
planners only ask whether there is one, and each consumption re-reads the
lists, so more pending posts add nothing but empty turns. `MaxSuspensiones`,
`MaxValor` and the numbers within the scenarios (exits, suspensions, resources,
kills, victims) cap events or lengths; each is at least one in a run about the
event it bounds. Two carpinchos are enough for one to overtake the other in a
round, and for an answer to go to the wrong one; the queues, the wrong index
and a chain of waits that is not a cycle need three. A carpincho asks for its
exit once (`Desconecta`, `EligeVictima`).

In `deteccion` four carpinchos and three semaphores give deadlocks of two with
others that wait behind them, and of three; `MaxPosts = 2` are the posts of a
recovery. With the five carpinchos of `deteccion_falsa` both properties hold
too. `MaxTareas = 0` stops new tasks after a name was freed, where the
properties say nothing any more. With it the victim of the detector is always
blocked; the branch that ends the kernel is reached from 3 on.

In `Memoria`, `MaxCruces = 0` stops likewise at the first cruce; `MaxPaginas`
gives the processes more pages than they have frames, in most configurations,
so that pages leave, come back and leave again, and frames are given again.
`Manos = {0, 1, 2}` has values within the clock, at its end and beyond it.
`Tamanios = {1, 2, 4}` and `Maximos = {1, 3}` have a file smaller than
`MARCOS_MAXIMOS`, one equal to it, larger ones, and a second file that is used
when the first one is full. `MaxPedidos = 2` lets a carpincho block, be woken
up and ask again; the third request finds nothing that the second did not.

Symmetry is used in runs without liveness only; `Procesos` enter no
comparison but equality. In `DeteccionDeadlock` the victim is the greatest
pid, so there is symmetry only in `deteccion_falsa`, which has no exits.

**Deadlock** is not an error of these models: behaviours end when the bounds
are used up, when every carpincho has left, when all of them wait, or when a
process has ended (`caido`, `caida`). That the threads do not stop too early is
what the liveness properties and `LargoDespierto` and `CortoDespierto` say.

**Fairness.** Only two runs state liveness. The operating system schedules every
thread again and again, so a step that stays possible is taken (weak fairness).
In `avisar`, a thread that waits for a semaphore which others take and release
in between gets it sooner or later (strong fairness): Linux futexes are not
strictly first-in first-out, but none of these waits is a spin and each holder
sleeps or blocks between two turns. In `Memoria`, swap answers and a request
that can go on does (weak fairness): requests are served under one mutex, so
nothing disables the step of the one in progress. Nobody has to make a request,
and nothing is assumed of the carpinchos. The scheduler, the semaphores and
`Pedidos` have no fairness, since the code promises no progress there: it has
locks in two orders, busy waits inside locks and wake-ups that are lost.

## 4. What is proved

Each theorem holds for every value of the constants, under the assumptions of
its module alone (`ConstantesOK`, `DuenosOK`, `PedidosOK`...), unless said
otherwise. Every invariant was checked by TLC on the runs of its module, as the
inductive invariant it is, before it was proved. An inductive invariant is a
conjunction of named parts; a proof that a step keeps it has one step per
action, or one per *kind* of step when most actions leave a part alone
(`SinBloqueos`, `SinMovimiento`...).

### Planificacion

* `TipoCorrecto == Spec => []TypeOK`. `TypeOK` is inductive by itself: guards
  that ask for a positive semaphore before taking it, and for an index within
  the list before a move, carry it (`SemaforosNaturales`, `MoverTipa`).
* `ProcesadoresExactos == Spec => []MultiprocesamientoExacto`. The invariant
  is inductive together with `TypeOK`. A move changes the length of
  `lista_exec` by what it changes `multiprocesamiento` by (`MoverCuenta`,
  `Balance`), also when `hilo_salida_a_exit` gives the processor back before
  it takes the carpincho out, which is the correction in the invariant.
* `LargoNuncaDuerme == Spec => []LargoDespierto` and
  `CortoNuncaDuerme == Spec => []CortoDespierto`. A step of anybody but the
  planner leaves a post in the planner's semaphore, or leaves the semaphore
  and the lists as they were (`PasosDeOtros`); what remains are the planner's
  own turns, which post again when they move, and the steps that change a
  counter without a post: the store of the long term planner, for which the
  invariant is strengthened (`EnCurso`: between its move and its store the
  post of that move is still pending), and the processor that
  `hilo_salida_a_exit` gives back one step before it notifies. `MaxAvisos` is
  any positive number here, so that the planners do not sleep does not depend
  on how many posts can be pending.
* `CuentasCorrectas == Spec => []ContabilidadMultiprogramacion`. The units
  free or used (`Cuenta`) and those that moves still owe the counter
  (`Deuda`) change together in every step that does not store a stale value
  (`CuentaDeUnPaso`); a lost update stays recorded (`SolapadaQueda`), so the
  invariant is inductive together with `TypeOK`.
* `ImplementaCicloDeVidaSiempre == Spec => ImplementaCicloDeVida`, the
  refinement. The invariant adds that a carpincho is in one list, once
  (`EnUnaLista`) and that `lista_exec` is no longer than there are processors
  (`SinExceso`, from the exact counter). A step is a stutter, an arrival or one
  move (`CambioDeListas`), and each move is an edge of `CicloDeVida`
  (`CicloPaso`), also those of an index that is stale.
* `BloqueosNoSePierden == Spec => []BloqueoNoSePierde`, with suspensions, I/O,
  exits and the kills of the detector. The post of a flag may move somebody
  else, but then that one's post is still there: the invariant counts both. It
  adds where those that run and those that are flagged are (`Ejecutan`).
### Semaforos

* `TipoCorrecto` (each record has the fields and the kinds of values of the
  struct), `ValoresYColas`, `BloqueadosEnUnaCola`: the value and the
  queue of a semaphore agree, and who is blocked is in one queue, once. The
  invariant speaks of places and not of how many they are: the queues hold
  those that are blocked for a semaphore, once each (`ColasExactas`), a blocked
  carpincho has no task in its hands (`TareasYEstados`), and the loops of
  `hilo_salida_a_exit` go over the lists of one that is out already
  (`SalidaEnCurso`), so what they remove wakes nobody up.
* `UnaSolaUnidad`, `Spec => []UnaUnidad`. The property speaks of disciplined
  carpinchos until the first of them leaves (`NadieSalio`), also when some
  will; its proof showed that it needs no one to destroy either: a semaphore
  destroyed between the request of a post and the post leaves a unit with a
  carpincho that believes to have returned it.

### DeteccionDeadlock

In `Semaforos_proofs` too, on top of the invariants of the semaphores, which
the steps of the detector keep (`PasosDelDetector`, `NadieInductivo`), and with
one assumption more: there are finitely many carpinchos (`ProcesosFinitos`).
Both theorems have the condition `ComoMutex /\ Fuera = {}`, carpinchos that use
semaphores of value 1 as mutexes and none of which has left yet. After an exit
the unit of a mutex may be twice, and what the searches rest on, that a
semaphore has one holder, is lost; there the run speaks.

* The inductive invariant is that `lista_recursos_asignados` says who has what,
  each thing once (`Entradas`), until a post hands a semaphore over and writes
  down the name that is freed (`EntradaEntregada`): that is `colgo = 0`.
* A call of the search then moves from a carpincho to the one holder of what it
  waits for (`UnaArista`). The calls of a search are a recursive function, of
  which it is proved that it exists (`LlamadasExisten`) and, by the first call
  that would break it, what holds of each call.
* `BusquedaSiempre == SpecDetector => [](ComoMutex /\ Fuera = {} =>
  BusquedaCierta)`. While a search goes on, all that it saw but the last wait
  for each other, and what it takes for seen one of them has; so when it meets
  a semaphore that was seen, the last one waits for them as well (`Cadena`).
* `DeteccionSiempre == SpecDetector => [](ComoMutex /\ Fuera = {} =>
  DeteccionCompleta)`. From one of a deadlock a search does not stop but with
  something found, and each call looks at a carpincho that none looked at
  before (`Avanza`): there are more calls than carpinchos, so it finds
  something (`BusquedaHalla`). It starts from the first of a queue, whatever
  the queues before left.

### AvisarCambio

* `TipoCorrecto`, `RondasCerradas`. The mutex of the round is held in a round
  and only there (`MutexDeRonda`); `cantidad_de_procesos` is the number of
  carpinchos that did not exit, and one more until the exit takes it off
  (`CantidadExacta`); in each phase the posts of the three semaphores, the
  threads that took theirs and the index of the loop add up to it (`EnFase`,
  `Repartido`), until a round is interrupted.
* `LecturasEstables == Spec => LecturaEstable`, an action property. Without
  suspensions the medium term planner makes no round and interrupts none
  (`SoloListas`), and where nobody is in a round no thread is looking
  (`SinRonda`), so the next move finds none.

### Pedidos

Every step but those of memoria is of one carpincho, so each part of the
invariant is carried for the one that moves and left alone for the others.

* `TipoCorrecto`.
* `UnaSolaRespuesta`, `Spec => []UnaRespuesta`. What is owed to a carpincho,
  its request, the task made of it, the packet to memoria, the answer that
  comes back, is one at most, and one if it waits (`Cuenta` adds up the places
  where it may be), unless it was dispatched without an exec thread (`SinHilo`),
  when nobody owes it anything; `OP_ERROR` makes the client stop.
* `SinTareasFuera`: who is not in `lista_exec` has no tasks.
* `KernelSobreviveSiempre`: the packets that the kernel may still write to a
  connection that a carpincho closed are at most one, and none after the
  reset (`Cierres`).
* `RespuestasPropias`: with one processor, no kill and no victim there is one
  relay at a time, so what comes first on the socket of memoria is its answer,
  with the number of its request.

### Swap and Almacen

* `TipoCorrecto`, `MarcosExclusivos`, `EspacioSiempreExacto`, `MapeosExisten`,
  `ContenidosFieles`. They hold together, with three facts more: with the
  global assignment a free frame is of nobody and the frames of a file fill it
  from its start (`MarcosGlobales`); memoria asks back what it saved
  (`Conversacion`); and what is stored is there once (`UnaVez`).
  `ContenidosFieles` says that at the place of a stored page is what `strlen()`
  made of it when it was last saved, or what a text too long left there; not that
  it is what memoria sent, which the code does not give.
* `ImplementaAlmacenSiempre == Spec => ImplementaAlmacen`, the refinement,
  request by request, for both assignments.

### Memoria

All the invariants of the run, in two modules. `CuentaSiempre` and
`UnSoloLugarSiempre` hold while `cruces = 0` and `~perdidas`, `OrdenSiempre`
while `cruces = 0`; what this leaves out is in section 3.

* `TiposSiempre == Spec => []TypeOK` (`Memoria_proofs`). `IInvTipos` adds the
  request in progress: an access creates no page, and for the pages that an
  allocation creates there is room (`FaltanBien`); and while a page replaces
  another the victim comes from the list of whoever is served, and the one that
  needs the frame is not in memory (`ReemplazoBien`). So a page always has a
  frame of the memory, though `bit_presencia`, frame and lists change in
  different steps.
* `MemoriaMarcos_proofs` first reduces every step to one of nine kinds by what
  it does to the pages in memory (`Paso`, `PasoBien`): nothing (`Espera`,
  `Sigue`), an access, a victim that is sent or has left (`Manda`, `Sale`), a
  page created, brought in, asked for or back (`Crea`, `Entra`, `PidePagina`,
  `Vuelve`). The invariants are then carried kind by kind, in layers:
  * `TlbFielSiempre == Spec => []TlbFiel`, from `TlbExacta`: the TLB forgot the
    victim before it travels.
  * `OrdenSiempre == Spec => []OrdenDeReferencia`. With fixed assignment a list
    holds pages of its process only, so there are no cruces (`ListasPropias`);
    a list of LRU is the pages in memory, once each (`ListaLRU`), and its order
    is that of the history of references (`Referencias`).
  * `CuentaSiempre == Spec => []CuentaExacta`. The count is exact (`Cuenta`)
    only because a page without a frame never finds one free again
    (`EntraImposible`): `ConMarcoLibre` does not count the page it brings in.
    That is so because a page is out of memory only where there is no room,
    counting the frame in transit (`SinHuecos`, `Tomados`), because the victim
    is in memory when it leaves (`VictimaBien`), and because memoria and swap
    agree on who answers what (`Conversacion`).
  * `UnSoloLugarSiempre == Spec => []EnUnSoloLugar`, from `UnSoloLugar`, which
    says where the page that travels is at each moment of the exchange.
  * `MarcoDeUnoSiempre == Spec => []MarcoDeUno`. The frame in transit is of no
    page (`MarcosDistintos`); with fixed assignment the frames of a process are
    the first `Tomados` of its own, which are `MARCOS_POR_CARPINCHO + 1` at
    most (`MarcosPropios`), and a process keeps its place among the tables
    (`TablasPaso`).
  * `RelojSiempre == Spec => []RelojConVictima`. A clock holds a page once
    while swap lives (`RelojUnico`), so when its last page leaves the hand is
    beyond it (`UltimoPresente`): the turn that would never end is not begun,
    and memoria falls.

The proofs also changed two statements: `TlbFiel` no longer asks that there be
no cruces, and `OrdenDeReferencia` neither that no page was lost nor, as it now
compares the list with the history page by page, that the TLB be right.

### Lemmas about lists

`Listas_proofs` has what is needed of lists and cannot be had by induction over
them: that places can be numbered in order (`PuestoBiyectivo`), that a set of
places has a first (`MinimoExiste`), that a search stops at it
(`PrimeroEsMinimo`), what is left of a list of which some elements were
removed (`QuedanBien`), `list_remove` (`QuitarUno`), that a list without
duplicates stays so (`Unica`), and in which order the others remain (`Antes`).
They are derived from the library's facts about cardinality.

### Only model-checked

Everything about liveness (`RondaTermina`, `PedidoTermina`), since fairness and
ENABLED are beyond the prover; and what the detector finds once a carpincho has
left. Induction over data with an operator as a parameter is beyond it too:
where it is needed (the calls of a search, the loop over a queue) it is done by
the least counterexample, case by case. No module declares a RECURSIVE operator.

## 5. Plan

The models are complete as far as section 6 says, and every invariant and
action property of the passing runs is proved, the two of the detector until
somebody leaves. What is left is to prove them after an exit as well,
where a semaphore may have two holders: the argument must then follow what the
exit gave back and what it left assigned (`QuedanRestos`).

## 6. Not modelled, and why

* The bytes: pages, the contents of packets (`shared/serializaciones`), the
  headers of the allocator within the pages, configuration files. Which pages
  a request of memory touches is left open, so that two allocations overlap is
  beyond these models.
* The estimations of SJF and HRRN are floating point numbers that only choose
  among ready carpinchos: the choice is left open.
* The clock with dynamic assignment: its list is a local of `main` that hides
  the global one, so memoria ends before that branch is reached
  (`memoria-virtual.c` 491-762).
* The dump and the metrics of memoria print. The debugging console and the
  start-up are sequential; shutdown ends each loop at its next turn.
* The torn updates of `procesos_esperando_bloqueo`, which exec threads raise and
  `esperar_bloqueo` lowers without a common mutex, and lists torn by two
  threads at once. `Planificacion` and `Semaforos` in one instance, whose states
  are out of reach: each leaves open what the other decides.
* A connection that dies before its first packet: `mate_init` sends it at once.
* The test carpinchos and `test/` have no logic of the system.
