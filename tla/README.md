# Verification of SGRC

SGRC lends the devices of a school (notebooks, carts, projectors). Teachers reserve
devices for a class; administrators block them, repair them, hand them out at a desk and
receive them back. A Go server over PostgreSQL keeps it all; two or more instances of
it may run at the same time. This directory holds TLA+ models of that server, the TLC
configurations that check them and the TLAPS proofs about them.

    tlc -workers 2 -config MCReservas.cfg MCReservas.tla      one run
    tlapm Reservas_proofs.tla                                 the proofs of a module

`PROJECT.json` maps every definition to the lines it stands for and lists the runs, the
mutants (a plausible bug for each property, which TLC must catch), the theorems, the
hazards and the findings. Names of the models are the code's names wherever TLA+ allows.

## 1. The system

### Components

| Component (`src/internal/...`) | State | Operations that change it | Talks to |
|---|---|---|---|
| reservation: calendar | `reserva`, `reserva_grupo`, `regla_recurrencia` | CrearReserva (displacing or not), CrearReservaRecurrente, CancelarReserva, CancelarOcurrencia, BloquearEquipos, LevantarBloqueo, CambiarEquipo, FinalizarVencidas, cascades by device, subject or id | inventory (is it reservable), academic (may this teacher), availability (is it open), events |
| reservation: loans | `prestamo`, with its academic context | EntregarPorReserva, EntregarSuelta, RecibirEquipos | calendar (what a hand-out stands for), inventory (may it leave) |
| reservation: Vigilante | marks in `reserva_grupo` and `prestamo` | every five minutes: remind, release what nobody collected, announce what stayed out | calendar, loans, availability (was the desk attended) |
| shared/eventbus, shared/pgtransaccion | `evento_pendiente`, advisory locks | Emitir, Despachar; Coordinar, Ejecutar with retries | everybody |
| inventory | `equipo`, `carro`, accounts of a machine, incidents, preferences, licences | create, move, rename, renumber; state of a device, discharge and reactivation (with cascades); reveal a password; preferences; licences and their reminders | calendar (cascades), loans (is it out), notification |
| academic | years, courses, spaces, subjects, assignments, requests | edit the structure, assign and remove teachers, resolve requests, yearly closing | calendar (cascade of an orphan subject), inventory (what its priorities cover), reporting (snapshot) |
| auth | `usuario`, discharge in progress, recovery codes, tokens | register, approve, discharge, change role and password, recover, enter with a password or with Google | academic, calendar |
| availability | weekly hours and exceptions of admins, the school day | edit hours, replace the school day (with cascade) | calendar, Vigilante |
| notification | `notificacion`, e-mail preferences | write, read, close notices on events | eventbus, e-mail |
| sugerencias | threads and messages | open, answer, resolve | notification |
| reporting, auditoria, configuracion | snapshots, log, one row of terms | queries, mostly | all |
| cmd | jobs: outbox every few seconds, FinalizarVencidas and Vigilante every five minutes, licences | start, stop | all |
| frontend | none that lasts | screens | HTTP |

### How the parts interact, and what is hard

* **One institutional lock.** `Coordinar` takes a PostgreSQL advisory lock: shared for
  operations that only add to the calendar, exclusive for those that displace, sweep,
  hand out, or change what the calendar depends on. Cancellations and the finishing
  ticker take none and rely on row locks only. Which operation takes which mode is
  spread over a dozen call sites; several are there because of a race somebody met.
* **READ COMMITTED.** A transaction sees what commits while it runs. The code lists
  candidates, locks groups and rows in the order of their ids, reads again and writes
  the whole row; `GuardarReserva` checks the version it read.
* **Displacement.** A subject with a better mark on a device may take it from another
  class, which gets another device, for which others may have to move in turn
  (`reponerEnCascada`); who ends with nothing is cancelled.
* **Copies of one fact.** The state of a class is computed from its reservations and
  stored; a loan repeats the device of its reservation; the bell repeats whether
  something announced is still out.
* **Wall time.** A reservation has a date and two hours, the second of which may fall
  on the next day. Go and SQL both decide when it is over.
* **The clock is read before the commit**, sometimes after waiting for a lock.
* **Events** must leave with the operation that caused them, once, in order, though
  instances die, commits lose their answer and handlers fail.
* **Cascades** cross modules: a device, a teacher or an opening hour disappears and
  reservations have to go with it, in the same transaction.
* **A confirmation arrives later than what it confirms.** A new school day, the edition
  of a course and a batch of loans are shown to an admin in one request and applied in
  another, and the world moves in between. Some carry a version of what was shown.
* **A repeated request.** The yearly closing, the resolution of a request and a
  discharge may be sent again because an answer was lost, and must not happen twice.
* **Names that come back.** A retired machine, cart or subject leaves its name free, and
  may return to find it taken.

What makes each part correct: no device is promised twice (calendar); no promise on
what is not there (calendar and inventory); the stored state of a class tells the
truth (calendar); nothing is displaced that may not be (calendar); interleaved
transactions amount to whole operations (locks); the cascade ends, collides with
nothing and cancels nobody it could place (replacement); what is in somebody's hands
stays theirs (loans); nothing is called uncollected that was collected (sweep); what
stays out is announced and the announcement goes when it is back (sweep, bell);
events are neither lost nor repeated (outbox); an admin always remains and a discharge
leaves nothing behind (accounts); no session or code outlives what replaced it
(credentials); a year is archived once and loses nothing (closing); a request has one
decision (requests); nobody confirms what was not shown (edition of a course); a name
belongs to one machine (inventory); a password is seen only by who may, and leaves a row
(accounts of a machine); an expiry is announced, and once (licences); no class is left
outside the hours of the school (school day); a thread that waits is in the bell, and no
other (mailbox). `PROJECT.json` lists the hazards one by
one, at their line, with the property that covers each.

## 2. The modules

    ReservaDominio   pure rules: states, wall time, permissions, preference
          |
       Reservas   <----------------- Reservas_proofs (TLAPS)
       /  |   \
      /   |    Reposicion  <--- Reposicion_proofs   the search of reponerEnCascada  ==> Reservas
     /    |
    |   ReservasConcurrentes <--- Concurrentes_proofs   transactions and locks  ==> Reservas
    |
    Custodia  <--- Custodia_proofs   loans, sweep, bell           ==> Reservas
        |
    CierreDeJornada <--- Custodia_proofs   the closing notice on the pace of the ticker

    Outbox  <--- Outbox_proofs       events over transactions     ==> Entregas

    Cuentas            \                     accounts, last admin, discharges
    Credenciales        |                    passwords, sessions and codes of one account
    CierreAnual         <--- Gestion_proofs  years, their structure and their closing
    PedidosDeMateria    |                    requests for a subject and assignments
    EdicionDeCurso     /                     the edition of a course and the priorities it moves

    Inventario         \                     carts, machines, incidents
    CuentasDeEquipo     |                    accounts of a machine and their passwords
    Licencias           <--- Laboratorio_proofs  licences, their daily sweep and its notices
    Jornada             |                    hours of the school and of the desk
    Buzon              /                     threads of the mailbox and their bell

    Ordenadas_proofs   lemmas about sorted sequences, for Reposicion_proofs and Laboratorio_proofs

`==>` is a refinement; TLC checks each, and all four are proved (of Outbox, the safety
half). The MC modules give the constants their values.
MCGestion and MCLaboratorio hold instances that share no state: a variable `parte` says
which one moves and the others stay where they start, so that one run explores the sum of
their states and not the product. MCConcurrentes has two parts of the same module in this
way, and MCCustodia explores the states that belong to either of two small desks. Modules meet where the code does: Reservas has the cascades of inventory,
academic and availability as actions, Custodia contains what loans ask of all of them, and
the modules of one service (say Jornada) keep what the others hold of its facts
(the classes booked) as far as its operations read or write it.

**ReservaDominio** translates `domain/reserva.go`, `reserva_grupo.go` and
`vigilancia.go`: which states are terminal, which transitions a reservation and a class
have, `EstadoDeGrupo`, overlap, when a reservation has started or is over, when it may
still be handed out, who may cancel or reserve, who prefers a device. A slot is
`[dia, ini, fin]` in instants of one time line, `fin` possibly beyond the end of `dia`.

**Reservas** is the calendar as its callers see it: one action per operation, each a
single step. A reservation is named by its group and the device first asked for; its
current device is a field. What `reponerEnCascada` does inside a creation is *promised*
here (`PlanJustificado`): a plan of moves and cancellations in which only who may be
displaced is, and whose result has no overlap. `equipos` is the condition of a device
in the inventory; the cascades of inventory, academic and availability are actions.
A transaction may have read the clock up to `Retraso` instants before it commits.

**ReservasConcurrentes** takes the operations apart: begin in a mode of the advisory
lock, list candidates, lock their groups in id order (one key at a time), read again,
possibly enlarge the set (a cascade), write against the deferred exclusion constraint,
commit or abort. A multi-row insertion is one step, so deadlocks *inside* the exclusion
constraint are not modelled (PostgreSQL breaks them and `Ejecutar` retries, which is an
abort here).

**Reposicion** is the loop of `reponerEnCascada`, variable by variable (`plan`, `cola`,
`intentados`, second pass), for a class or a weekly series, on a table that stands still:
the exclusive lock keeps every other writer but the cancellations out, and those only set
devices free. Both orders of the code (the displaced by date, hour and id; the candidates by
mark, reach and label) end in a key without ties, so each is a CHOOSE with one answer.

**Custodia** adds `prestamo`, the marks of the sweep, discharged devices and the
closing notice. `EntregarPorReserva`, `RecibirEquipos` and `Barrer` are two steps, what
they read under the lock and their commit, and between the two runs whatever their lock
does not keep out. The operations of `Reservas` appear with the extra conditions loans
put on them (`NoDesplazaLoEntregado`, `ErrReservaConEntrega`, `EstaPrestado`). `Reservas`
lets any reservation be released at any time it could be handed out; Custodia only does
so from the sweep or the desk. The clock readings of one batch fall in one instant. A
request with an outdated map of devices (`EquiposEsperados`) is refused whole and so is
a stutter. The trigger of migration 030 repeats conditions the code already enforces and
is deliberately not a guard: the invariant it protects is checked on the code's guards.

**CierreDeJornada** is Custodia where no instant passes without a sweep, to say that
every device that stays out is announced.

**Outbox** models operations that write events in their own transaction and instances
that run `Despachar`: advisory lock, first pending row by id, handlers, mark, commit,
and the observers (e-mail) after it. Ids are drawn at insertion and become visible at
commit. Anything may fail: a write, a handler, an instance, the answer of a commit.
That only the holder of the lock is inside a delivery is part of its `TypeOK`.
**Entregas** is what users of the bus may rely on.

**Cuentas** is `internal/auth` without credentials, with what a discharge touches
elsewhere. A process is an HTTP request and a record says how far it is: what it read
(`leida`, the `anterior` of the guarded UPDATE), and, when an admin would be lost, the
rows `ContarAdminsAprobados` still has to lock and those it holds. A discharge is the
saga of `DarDeBaja`: prepare and close the account, then one transaction per subject,
any of which may fail, then the end; the process may die anywhere (`Deshacer`) and another
may resume or run beside it. Transactions that hold the institutional lock alone and
whose row locks nobody else wants are one step (AsignarDocente, RemoverDocenteMateria, a
subject of a discharge). A class is its subject and whether an admin booked it, which
is all the cascade tells apart. The middleware lets in whoever *was* an admin, so the
requester is no guard; that nobody demotes themselves (`ErrAutoDegradacion`) is left out,
which only allows more.

**Credenciales** is one account served by several requests at once, each in the steps
between whose statements another may commit: entering reads the row, verifies and signs
later; the change of a password reads, verifies and writes under the row; a recovery
code is created, missed, burned or used under `EnRecuperacion`. A password is named by
the version that set it, since every hash has a new salt. What the middleware asks of a
token (`Vigente`) is its version against the row, on every request; that a token expires
is that nobody uses it any more. Google is a source of identities, linked or not.

**CierreAnual** has the years with their places and subjects, the reservations that
hang from them and the accounts that made these. The closing is taken apart where other
work can come in: begin and archive, read the use, seal it with the names of the accounts
(one may be deleted meanwhile: `EliminarCuenta` takes no coordination), delete, clone and
keep the answer; it may be aborted at any of them. A repeated closing returns what
was kept, or is refused for another destination.

**PedidosDeMateria** is one step per operation under the exclusive coordination, save the
resolution, whose transaction may lose a deadlock and run its callback again, and
during which the account of the author may be removed. The events and audit rows of an
attempt are in memory until its transaction commits. Creation of the subject, the role
(substitute of whoever is already there) and the assignment are one resolution.

**EdicionDeCurso** relates two modules: the preferences of a machine name a course by
year, division and modality, so editing a course moves what they reach. The admin is
shown an impact and its version, and confirms that version. A rule is a value, its row and
its axes at once, where the version has the row and what it applies to: a screen whose rule
got other axes with the same effect is out of date here and not in the code.
`Deletreo` is how the query that looks for other users of a rule reads a general one, as if
its axes were those of a course.

**Inventario** has one action per operation on carts, machines and incidents, each one
transaction under the exclusive coordination. Labels are what people call a machine:
its own name if it has one, which a machine of a cart may be given too, or its number,
and in a notice the name of the cart after it. Partial unique indexes only see what is in
circulation; what the reservations and loans say of a machine arrives through
`ValidadorReservas` and is input here.

**CuentasDeEquipo** has the accounts of a machine and their passwords, sealed with
AES-GCM under the configured secret. A reveal reads (`Revelar`), writes its audit row
(`RegistrarRevelacion`) and answers (`Responder`) in three steps, among which accounts are
edited, made private and deleted and the process restarts with another secret, or with none.
The write commits, or returns an error, which does not say that the row is not there; then
the request ends without the password. Each reveal has a number, so that its row and its
answer are its own.

**Licencias** has the licences, the days, and the daily sweep in its steps: read the
clock and the candidates, mark and publish in one transaction. The events wait in a queue
(the order of Outbox) and their delivery writes or closes the notice of each
admin. Renewals, editions, retirements and readings come in between.

**Jornada** has the weekly blocks of the school, the bookings and the change of the
school day in two requests (shown with its impact, then confirmed, which cancels by
cascade what is left out), and the desk: weekly hours of each admin, exceptions by date,
absence declared on the spot. It translates the pure functions of `domain` (whether a
booking fits, when a day closes, when the desk is attended) with times past midnight.

**Buzon** has the threads: each operation reads its thread under the row lock, decides and
writes, in two steps. Messages and their event commit together; events of a thread are
delivered in order, each writing or closing the notices of every admin, or of the author.
Admins appear and leave, notices are read and deleted, a thread goes with its author.

Every module with variables of its own (all but Entregas, which is checked through Outbox, and
CierreDeJornada) defines its type invariant (`TypeOK...`, `Tipos...`). They were model-checked
with the instances below and then left out of the runs. Those of Reservas,
ReservasConcurrentes, Reposicion, Custodia, Cuentas and Jornada are theorems
(`Tipos`, `TransaccionesTipo`, `BusquedaTipos`, `TiposDeCuentas`, `JornadaTipos`; Custodia's is
part of `IInvCu`), and those of the other modules are parts of the invariants proved.

## 3. The runs

| Run | Properties | Shows |
|---|---|---|
| reservas | NoSolapamiento, GrupoCoherente, SinPromesasFueraDeCirculacion, LoIntocableNoSeDesplaza | every operation of the calendar on two devices |
| series | TodaReservaSeCierra | weekly series; no reservation stays in force for ever |
| concurrentes | LoReleidoSigueVigente, OrdenFijoSinAbrazos, ImplementaReservas | two connections, single bookings, and apart from them series and cascades: every commit is an operation of Reservas, what was read again stays true, no circle of waits |
| reposicion | PlanCorrecto, EsUnaCreacion, SoloCorreQuienPrefiere, LaCascadaTermina | the search keeps the promise Reservas makes of it |
| outbox | TodoSeAvisaUnaVez, ImplementaEntregas | no lost, half or repeated notice; all events, once, in order |
| custodia | LoEntregadoEnSuLugar, AdelantoSinPisar, AdelantoCumple | what was handed out is never moved or displaced; early hand-outs, discharges and late clocks are still Reservas |
| mostrador | CampanaVeraz, LiberacionJustificada | two desks and a sweep: a truthful bell, justified releases |
| cierres | TodaDemoraSeAvisa | whatever stays out is announced, after midnight too |
| gestion | SiempreHayAdmin, ClaseConDocente, ContarNoSeTraba, IntentosAcotados, SesionesVigentes, SoloElUltimoCodigo, CierreSinPerdidas, AnioCerrado, UnaSolaDecision, AprobarEsAsignar, EdicionSinSorpresas | accounts, credentials, the yearly closing, requests for a subject and the edition of a course, under concurrent requests |
| laboratorio | AvisosConMotivo, TodaVencidaSeAvisa, EtiquetaUnica, TodaVistaConMotivo, TodaClaseEnHorario, MostradorCoherente, NadaReabiertoQuedaCerrado, CampanaDelHilo | licences, machines, their accounts, the school day, the desk and the mailbox |
| cierre_repite | SeAvisaCadaJornada (violated) | the notice does not repeat each day, as two comments say |
| jornada_previa | SoloSeCancelaLoMostrado (violated) | a confirmed change of the school day may cancel a class that was not shown, as a comment says it cannot |

Three more configurations show disagreements of text and code that section 5 tells, with the
instances of the runs cierres and laboratorio, and TLC finds their property violated:
`MCCierreReciente.cfg` (ValeElMasReciente), `MCLaboratorioAviso.cfg` (UnAvisoPorPersona) and
`MCLaboratorioRotulo.cfg` (DeCarroPorSuNumero).

### Bounds, and why they are enough

* **reservas**: two devices, two groups, two overlapping slots of one evening, one
  past midnight (days of 3 instants, clock to 4), clock readings up to 1 instant old,
  batches of 1 and a preference in each direction. Two groups on two devices show every
  conflict between a creation and one other party, including displacement onto the
  other device and cancellation for lack of one. Groups are symmetric.
* **series**: a teacher, two devices and two groups, a slot on each of two days, series
  of the first or of both, clock to 4; no symmetry, since the run checks liveness.
* **concurrentes**, two processes, in two parts. *sueltos*: single-slot requests, clock to
  4 with delay 1. *series*: three groups, series and whole cancellations, no clock:
  three groups are what a second round of locks needs to close a circle.
* **reposicion**: four devices, five subjects, three classes or blocks and a request
  for one to three devices, or for a series of two dates on two of them; 4,768 initial
  tables: chains of two displacements, a device freed by a later move, a displaced class
  on each date of a series and ties of preference all occur.
* **custodia**, clock to 3, one loan, in two parts. *preferencia*: two devices and two
  classes that prefer each other's on one slot, one request. *adelanto*: one device and two
  classes in a row, two requests, clock readings one instant old. **mostrador**: two
  devices, one class on both, two loans, two processes, closing at 3: the least that has a
  partial hand-out, a partial return and two returns at once. **cierres** and
  **cierre_repite**: one device, days of 3 instants of which the first closes past
  midnight, the second in the afternoon and the third does not open, clock to 8.
  `MCCierreReciente.cfg` has days of 4 instants, of which the first closes an instant after
  the second.
* **gestion**. *Cuentas*: the first admin, an account that registers or is created as admin,
  and one discharged before discharges were recorded (with or without an assignment, as
  migration 020 left them); one subject, two requests at a time. Losing the last admin
  takes two admins and two requests, and an orphan class two teachers of one subject.
  *Credenciales*: two requests, two tries per code, one change of the password, two codes:
  the least where a code replaces another while a third request tries it. *CierreAnual*: two
  years, one name, two teachers, one device, one reservation, two places. *PedidosDeMateria*:
  two authors and two admins, a current and an archived course, one title, two requests.
  *EdicionDeCurso*: a current and a past course, two scopes, a rule over both, one
  subject, one device, two priorities, one editor whose screen goes stale; the first scope
  is what the axes of the general rule spell.
* **laboratorio**. *Licencias*: two licences, two machines, one program, one admin, cycles
  of one day with notice of none or one, two days, three changes or failures.
  *Inventario*: two carts with two names, two machines, two numbers, one loose name, two
  serial numbers, one incident, six changes: enough to retire a machine or a cart, give
  its name away and bring it back. *CuentasDeEquipo*: two accounts, two users, two secrets,
  two passwords, one reveal, four changes. *Jornada*: days of four units, two days of the
  week and two dates, five blocks of which three at a time, one booking; two admins and
  two blocks at the desk; three changes. *Buzon*: the first admin and another person, who
  may become one, two threads, four acts.
* **jornada_previa**: the same hours with two bookings and four changes: one class in the
  impact that was shown and one booked after it.
* **outbox**: two operations of two events, two instances, five ids (each operation may
  be retried once); no symmetry, since the run checks liveness.

`Horizonte`, `MaxId`, `Prestamos`, `Editables`, `Atencion`, `Plazos`, `MaxVersion`,
`MaxCodigos`, `MaxLugares`, `UltimoDia`, `MaxFecha`, `MaxActos` and the `MaxCambios...` are
the named bounds; `CHECK_DEADLOCK FALSE` is set where a bounded clock, bounded ids or a
bounded number of changes end the behaviour.

### Fairness

* `Reservas!SpecJusta`: the clock runs and the ticker of `cmd/main.go` keeps calling
  FinalizarVencidas. Nothing is assumed of users.
* `Reposicion!SpecRJusta`: the loop goes on until its request ends.
* `Outbox!SpecJusta`: weak fairness for the tickers, for handlers that return, for the
  end of a failed event's wait; strong fairness for reading, for handlers to succeed
  and for the commit, because each may fail any number of times but not for ever. The
  code does choose order over progress: an event that fails for ever stops every later
  one, and the strong fairness says exactly that no event does.
* `Licencias!SpecL` (and so run laboratorio): weak fairness for the daily job (`EmpezarBarrido`,
  `Barrer`) and for the delivery of its events. The failures of the job are bounded.
* `CierreDeJornada` states the pace of the sweep (five minutes against instants of
  the model) as a condition on the clock instead of fairness, so that its property is
  an invariant. A sweep that is down for a day loses that day's notice, which the code
  logs and accepts.

## 4. The proofs

`Reservas_proofs` proves for every number of devices, groups, slots, subjects and
users, under `DominioAssumption` and `ReservasAssumption` (types of the constants,
every slot has positive length, `Nada` is none of the values it stands beside):

| Theorem | States |
|---|---|
| Invariante | `Spec => []IInv` |
| Tipos | `Spec => []TypeOK` |
| SinSolapamientos | `Spec => []NoSolapamiento` |
| GruposCoherentes | `Spec => []GrupoCoherente` |
| SinPromesasRotas | `Spec => []SinPromesasFueraDeCirculacion` |
| CierreEsDefinitivo | `Spec => CierreDefinitivo` |
| GruposTransicionan | `Spec => TransicionesDeGrupo` |
| NadieTocaLoIntocable | `Spec => LoIntocableNoSeDesplaza` |

`IInv` is the conjunction of `TypeOK`, `Referencias`, `NoSolapamiento`, `GrupoCoherente`
and `SinPromesasFueraDeCirculacion`. The four that the runs check are not inductive
alone: nothing in them says that a reservation's group exists, is a class or a block,
or that a free group has no rows, and without that a creation could take over the rows
of somebody else. `Referencias` says it. The proof has a lemma per operation, and in it
a step per part of `IInv` the operation can disturb; operations that only close
reservations share one lemma about `Cerrar`, and the recomputation of the groups has
one about `Recalculados`. The action properties follow from `IInv` step by step.

`Concurrentes_proofs` proves for any number of transactions, requests, groups and devices,
under the assumptions of Reservas and `ConcurrentesAssumption` (the requests are
well-formed, ids finite and totally ordered):

| Theorem | States |
|---|---|
| TransaccionesCoherentes | `SpecC => []IInvC` |
| TransaccionesTipo | `SpecC => []TypeOKC` |
| ConcurrentesImplementaReservas | `SpecC => ImplementaReservas` |
| ReservasBajoConcurrencia | `SpecC =>` the three state invariants of Reservas, always |
| LoReleidoVigente | `SpecC => []LoReleidoSigueVigente` |
| OrdenSinAbrazos | `SpecC => []OrdenFijoSinAbrazos` |

The refinement says that READ COMMITTED with these locks is enough: whatever ran between
the readings of a transaction and its commit, the commit is one operation of Reservas on
the tables it finds. `IInvC` is `IInv` with what each open transaction knows: what its
validations and first listing found and nobody can have undone (`Visto`), that its rows
are locked or on the way and those read again are as they are (`Tomado`, which gives
`LoReleidoSigueVigente`), what it is about to write, operation by operation (`Escrito`),
and that it writes existing rows under their lock only (`EscritoBajoLlave`). Two facts
are about pairs: the modes of the advisory lock let them run together (`CompatiblesT`),
and what both are about to write overlaps nothing (`SinSolapesJuntas`, the exclusion
constraint). A commit changes the tables under every other transaction, so the proof
first says what a commit may do to the tables as another transaction sees them
(`Ajeno`), shows that every commit is so (`ComiteEsAjeno`) and that each of the facts
survives it (`EnCursoSeConserva`); the lemmas in `EsPaso` then map each kind of commit
to its operation. TLC found `IInvC` (with `TypeOKC` for its sets of partial tables, too
large to enumerate) true in the 393187 states of run concurrentes. For
`OrdenSinAbrazos`, without an enlarged set of keys, what a transaction holds comes
before what it lacks (`EnOrden`), so whoever waits has strictly more keys after its own
than the one it waits for; among finitely many keys, somebody in each set waits for
nobody of it.

`Custodia_proofs` proves for any calendar, number of devices, loans, desks and processes,
under the assumptions of Reservas, `CustodiaAssumption` (types of the terms; `Nada` is no
number, loan or open transaction) and `CierreAssumption` (a day is its midnight, and closes
after it):

| Theorem | States |
|---|---|
| CustodiaCoherente | `SpecCu => []IInvCu` |
| LoEntregadoSigueEnSuLugar | `SpecCu => []LoEntregadoEnSuLugar` |
| CampanaSiempreVeraz | `SpecCu => []CampanaVeraz` |
| NadieSeAdelantaPisando | `SpecCu => AdelantoSinPisar` |
| LiberarSiempreJustificado | `SpecCu => LiberacionJustificada` |
| CustodiaImplementaReservas | `SpecCu => Spec` |
| ReservasConPrestamos | `SpecCu =>` the invariants and action properties of Reservas |
| TodaDemoraSiempreSeAvisa | `SpecCi => []TodaDemoraSeAvisa`, if `Retraso < GraciaCierre` |

The hard part is the interval between what a hand-out, a return or a sweep reads and its
commit, in which the actions that its lock lets through go on. `LeidoSigueFirme` says what
of that reading still holds at the commit (`EntregaFirme`, `DevolucionFirme`): a reservation
to be handed out keeps its device and has nobody in its way, one to be given up is still in
force and nobody came for it, the loans to be closed are still open. It needs `UnaSola`, one
such transaction at a time, since a second one would undo what the first read.
`PrestamoConReserva` is the foreign key. The bell lags behind the loans by a queue, so
`CampanaVeraz` needs `ColaVeraz`: the last event of the queue says how things are, and "some
remain" is never said to a bell with nothing announced. Each action has a lemma that gives
the invariant and the action properties of its step at once, so that the refinement is a
corollary: `AdelantoCumple`, which the run custodia checks, is the part of it that is not
immediate, where a loan brings a finish or a release forward.

`TodaDemoraSeAvisa` is preserved as it stands, next to `IInvCu`: in the instants that cut a
day the sweep looks at that day (`ElCorteEsElDelDia`, whatever the length of a day), and
what goes out later than a closing that is being announced is no part of it
(the delay of a commit is shorter than the wait). Nothing is assumed of the hours: the
instants that cut a day (`CortanElDia`) are those in which its closing is due and that of no
later day is, which is what the code looks at, also where a later day closes before an
earlier one. There the property promises what the code gives, which is less than its comment says
(`ValeElMasReciente`, section 5). The one hypothesis is needed, as TLC shows: with a delay as
long as the wait, a loan dated before the closing may be registered after the sweep.

`Outbox_proofs` proves for any number of operations, events, instances and retries, under
`OutboxAssumption`:

| Theorem | States |
|---|---|
| OutboxCoherente | `Spec => []IInvO` |
| TodoSeAvisaUnaVezSiempre | `Spec => []TodoSeAvisaUnaVez` |
| OutboxImplementaEntregas | every step is one of `Entregas` or a stutter of it |

Rows are delivered by id, ids are drawn before they are visible, and a delivery may read
while a smaller id is still to commit. What makes the order right all the same is
`AntesTieneMenorId`: whatever was published before an event has a smaller id and is
visible already, or belongs to the same operation. With it, the first pending row has
nothing undelivered before it (`LeidaSinEntregar`, with a minimum of a set of ids obtained
from the well-founded order of the naturals). `IdsDeLaSecuencia` and `FilasDeSuOperacion`
tie each row to its operation, `CorreoPendiente` the mail to the one instance that
confirmed, and `EntregadoSiProcesada` the history to the marks.

`Reposicion_proofs` proves for any tables, marks, inventory and request, under the
assumptions of Reservas and `ReposicionAssumption` (finitely many groups and devices, both
orders without ties, the requests are well-formed):

| Theorem | States |
|---|---|
| BusquedaCoherente | `SpecR => []IInvR` |
| BusquedaTipos | `SpecR => []TypeOKR` |
| PlanSiempreCorrecto | `SpecR => []PlanCorrecto` |
| LaBusquedaEsUnaCreacion | `SpecR => EsUnaCreacion` |
| LaBusquedaImplementaReservas | `SpecR => [][Next]_vars`, with the invariant of Reservas, `LoIntocableNoSeDesplaza` and `CierreDefinitivo` |
| SoloSeCorreAlQueCede | `SpecR => SoloCorreQuienPrefiere` |
| CadaPasoAvanza | every step lowers a measure of naturals |

`Reservas` *promises* a plan (`PlanJustificado`, no overlap); these say that the loop of
`reponerEnCascada` delivers it. `PlanCorrecto` speaks of a finished plan, so `IInvR` says
what a plan half made must keep: everybody in it is a class in force displaced by somebody
who may, directly or through another of the plan (`PlanJusto`); what it gives is reservable,
is not asked for by the request at that time, is held by nobody outside the plan and is
given once (`PlanSinPisarse`); who the second pass left without a device still has none
(`LoDescartado`, which holds because that pass only takes what is free). What was validated of the
request is kept in `PedidoPosible`, since the tables stand still. The invariant must hold
while the queue moves in several ways at once (who is assigned leaves, who is displaced
returns, and who was never in the plan enters), which is `AsignarPreserva`, the longest of
the lemmas; `SinAsignarPreserva` and `RepasarPreserva` are the other steps, and
`EscribirCrea` shows that a plan with the invariant is one that Reservas admits. TLC found `IInvR` true in the 31842 states of run reposicion
before it was proved. The measure of `CadaPasoAvanza` is lexicographic: pairs of reservation
and device not yet tried, the length of the queue, the places the second pass lacks;
`LaCascadaTermina` follows from it in mathematics, but takes ENABLED and stays with TLC.

`Ordenadas_proofs` has what these and the opening hours need of sorting: any finite set with a
total order has a sequence that enumerates it in that order (`HayOrdenada`, with the rank of
each element), and what concatenation and `Tail` do to sequences without repetition. The
provers cannot instantiate the library's induction, whose parameter is an operator, but
a *set* of naturals is a value: `InduccionDeConjuntos` says that one with zero and closed
under successor is all of them. It is proved from the well-founded order of the naturals, and
is what lets a fold be proved about at all.

`Gestion_proofs` has the proofs of the five modules that run gestion puts together. Of
*Cuentas* it proves, for any number of accounts, subjects and simultaneous requests,
under `CuentasAssumption` (finitely many accounts, an admin among them who was not
discharged, `Nada` is no record):

| Theorem | States |
|---|---|
| InvarianteDeCuentas | `SpecCt => []IInvCt` |
| TiposDeCuentas | `SpecCt => []TypeOKCt` |
| NuncaSinAdmin | `SpecCt => []SiempreHayAdmin` |
| BajasSinRestos | `SpecCt => []BajaSinRestos` |
| ClasesConDocente | `SpecCt => []ClaseConDocente` |
| UnSoloAnuncio | `SpecCt => []UnAnuncioPorMateria` |
| ContarNuncaSeTraba | `SpecCt => []ContarNoSeTraba` |

`IInvCt` adds what the tables alone do not say: a request only reaches its write with a
reading that admits the change, and without counting only if no admin is lost
(`LeidoBien`); the rows a request holds are of approved admins and of no other request
(`FilasPropias`); one discharge at a time is being prepared, of an account without any
(`UnoCoordina`, `SinBajaTodavia`); a discharge belongs to a closed account (`BajasDeBaja`);
what was announced is not pending and never will be (`AnunciadoNoVuelve`). The last admin
then rests on a count: more than one row held, all of admins, leaves one that is
somebody else's, which nobody else may write. `CambiaUnPedido` says what a step of one
request must respect, `SoloLee` and `SigueLeyendo` settle the steps that write nothing,
and each write has a lemma with a step per part of the invariant. That two counts never
wait for each other has an invariant of its own, `PedidosEnOrden`: the rows a request holds
come before the ones it lacks, and outside the count it holds none. Each would have to lack
a row that comes both before and after the one the other lacks.

Of *Credenciales*, for any number of requests, tries, codes and versions, under
`CredencialesAssumption`:

| Theorem | States |
|---|---|
| CredencialesCoherentes | `SpecCr => []IInvCr` |
| IntentosSiempreAcotados | `SpecCr => []IntentosAcotados` |
| SesionesSiempreVigentes | `SpecCr => []SesionesVigentes` |
| SoloElUltimoCodigoCambia | `SpecCr => SoloElUltimoCodigo` |

`UnSoloDueno` is the row lock: one request has it. What a request read of the account is of
a version it had, and if of the one it has, says the same of it (`LecturasVigentes`,
`DeSuVersion`); a session says the version its owner proved who they are with
(`SesionesDeSuRaiz`), which the edition of a profile keeps because it came in with one
(`PerfilesDeSuSesion`). A code that can still be used is the last one, with its tries counted
(`CodigosCoherentes`), and whoever has the row and verifies one has that one as it was read
(`CodigoEnMano`).

Of *PedidosDeMateria*, *EdicionDeCurso* and *CierreAnual*, which share no state, for any number of accounts,
courses, years and rows, under their assumptions (`PedidosAssumption`, `EdicionAssumption`,
`CierreAnualAssumption`: types, `NadaP` and `NadaA` are none of the values they stand beside,
the reservations are finitely many):

| Theorem | States |
|---|---|
| PedidosCoherentes | `SpecP => []IInvP` |
| UnaSolaDecisionSiempre | `SpecP => []UnaSolaDecision` |
| AprobarEsAsignarSiempre | `SpecP => AprobarEsAsignar` |
| EdicionCoherente | `SpecE => []IInvE` |
| EdicionSinSorpresasSiempre | `SpecE => EdicionSinSorpresas` |
| CierreCoherente | `SpecA => []IInvA` |
| CierreSinPerdidasSiempre | `SpecA => []CierreSinPerdidas` |
| AnioCerradoSiempre | `SpecA => AnioCerrado` |

A resolution whose transaction is open has its request waiting, and can still be granted
as it was checked (`ConResolucion`), although its author may have been removed;
`ConstanciasVeraces` ties every answer to its request and its one notice. The impact of an
edition says what applies before and after, rule by rule (`ReglasDelImpacto`), so that
confirming its version is confirming what changes; what is kept is kept whole because a rule
of an exact scope covers only that one (`ExactasDeUnAlcance`). In the closing, the use that
was sealed goes on being the use of the reservations there are until they are deleted
(`Consistente`, in `ConCierre`), although accounts disappear in between; a year is archived
by its closing only, and what was answered is what is kept.

`Laboratorio_proofs` proves, of five modules that share no state, for any number of rows,
people and requests, under their assumptions:

| Theorem | States |
|---|---|
| InvarianteDeInventario | `SpecI => []IInvI` |
| EtiquetasUnicas | `SpecI => []EtiquetaUnica` |
| NadieInvisible | `SpecI => []NingunEquipoInvisible` |
| DeCarroTieneSerie | `SpecI => []DeCarroConSerie` |
| CuentasDeEquipoCoherentes | `SpecP => []IInvP` |
| TodaVistaSiempreConMotivo | `SpecP => []TodaVistaConMotivo` |
| LicenciasCoherentes | `SpecL => []IInvL` |
| AvisosSiempreConMotivo | `SpecL => []AvisosConMotivo` |
| MostradorSiempreCoherente | `SpecJ => []MostradorCoherente` |
| PermiteLoQueEntra | `PermiteReserva(...) <=> Entra(...)`, for hours without overlaps |
| ClasesSiempreEnHorario | `SpecJ => []TodaClaseEnHorario` |
| JornadaTipos | `SpecJ => []TypeOKJ` |
| InvarianteDelBuzon | `SpecB => []IInvB` |
| NadaQuedaCerrado | `SpecB => []NadaReabiertoQuedaCerrado` |
| LaCampanaDelHilo | `SpecB => []CampanaDelHilo` |

*Inventario.* `EtiquetaUnica` speaks of what people read, and the tables hold identifiers. That
"PC 7 del Carro 1" is one machine needs that no two live carts share a name
(`CarrosDistintos`), that no two machines of a cart share a number (`ZocalosDistintos`),
that the cart of a machine exists (`EnCarroCargado`) and, for it to be alive, that nobody
in circulation is inside a retired cart (`NingunEquipoInvisible`), which is in turn why
retiring and moving are refused when they are. Loose machines have a name of their own
(`NombresSueltosDistintos`) and no number (`SueltoSinZocalo`), so what a notice calls two of
them, or one of them and a machine of a cart without a name, is not the same. What is left
is a machine of a cart that was given a name, which no index looks at: the property excepts
exactly that, and `DeCarroPorSuNumero`, which TLC finds violated, shows that it happens. Two lemmas, `SeGuardaUnEquipo` and
`SeGuardaUnCarro`, say what writing one row must respect, and each operation shows that it
does.

*CuentasDeEquipo.* What an account keeps is noted (`GuardadaAnotada`), and a reveal under way
keeps what justified it, whatever happens to the account meanwhile, and from its write on
has a row with its number (`PedidoConMotivo`); a write that failed leaves at most a row
without an answer.

*Licencias.* The sweep read rows that are still the rows there are (`BarridoVigente`: it holds
the coordination); what was announced of the expiry in force is marked in the row
(`MarcasAlDia`), which is why it is not announced again; the last event of the queue leaves a
notice open only while a licence is in its window (`ColaConMotivo`). The licences are
finitely many, for their count to be zero when none is.

*Jornada.* The desk: the sweep and the screen join the same blocks (`PantallaYBarrido`),
and the weekly hours of one admin do not overlap. The opening hours: `tramosDelDia` sorts the
blocks of a day and merges them, one after another, and a booking is admitted if one merged
block holds it whole. `FusionarUno` says what one more block does (the blocks stay apart from
one another and gain its hours, no more), `FusionPorPasos` turns the fold into a chain of such
steps, and `LosTramosDelDia` concludes by induction that the merged blocks are the
open hours. `PermiteLoQueEntra` is the equivalence with the reference definition (every hour of
the booking is open), in which a gap would be an hour in no block; it holds for blocks
past midnight as well. The invariant `IInvC` keeps with it that the blocks in force do not overlap, which is what
gives their beginnings an order, and that every class to come is admitted by them: a booking
asks, a change of hours cancels what it leaves out, and the clock only takes classes away.

*Buzon.* `LoLeidoEsVigente`: what a request read of its thread is still so when it writes,
because the row is locked. The bell follows from the queue: `UltimoEvento` says that the last
event still to be delivered says the truth about the thread, or that with none left the
bell already does; `ComoMuchoUno`, that nobody has two pending notices of a thread. `TiposB`
leaves out the bound on acts, which only TLC needs.

**Only model-checked.** Every state invariant and every action property of a passing run is
proved (`AdelantoCumple` as part of `CustodiaImplementaReservas`). What stays with TLC is
out of reach here, liveness and ENABLED: `TodaReservaSeCierra`, `LaCascadaTermina` (its
decreasing measure is proved), `TodaVencidaSeAvisa` and the fairness of `ImplementaEntregas`.

## 5. What was found

* The closing notice is given once per loan (`entraEnElCorte`, RF-08.13), but the
  comment of `MarcarCierreAvisado` and the one on the column `avisado_cierre_para` say
  it repeats on every day that closes with the device out, and that the date kept is
  the day announced (the code keeps the instant's). Run `cierre_repite`.
* The comment on the confirmation of a new school day
  (`availability/interfaces/http/handlers.go`) says that what was shown cannot differ from
  what is applied. The impact is computed again under the lock of the confirmation, so a
  class booked between the two requests is cancelled without having been shown. Run
  `jornada_previa`. The edition of a course, which does carry a version, has no such gap
  (`EdicionSinSorpresas`).
* `momentoYFechaDelCorte` looks at today before yesterday because "si los dos cortes ya
  pasaron, el que vale es el más reciente" (`vigilante.go:338`), but overlaps of the school day
  are only refused within one day (`BloqueJornada.SolapaCon`): with a Monday from 20:00 to
  12:00 and a Tuesday from 07:00 to 10:00, at 13:00 on Tuesday the latest cut is Monday's and
  the code takes Tuesday's, so a device that left at 11:00 is not announced for
  Monday. The proof of `TodaDemoraSeAvisa` found it. Configuration
  `MCCierreReciente.cfg`.
* The comments of `NotificarATodosLosAdminsSinRepetir` and of its subscriber
  (`notification/application/service.go:76`, `subscribers.go:166`) say that an admin with an
  unread notice about a person gets no other about that person. The query takes the thread as
  well, so a second thread leaves a second notice. Configuration
  `MCLaboratorioAviso.cfg`; what the code keeps, one for each thread, is `CampanaDelHilo`.
* RF-03.17 (`docs/01-requisitos.md:199`), the comment of `Etiqueta` and that of the
  column `equipo.nombre` say that a machine of a cart is called by its number. `EditarEquipo`
  lets it have a name, the label puts the name first, and no unique index looks at it, so
  such a machine may even be called as another. Configuration
  `MCLaboratorioRotulo.cfg`.
* Two disagreements of text alone, which no run is about. The comment in
  `auth/application/service.go:320` says that the link with a Google account stays even if
  its owner cannot enter; `LoginConGoogle` runs inside `eventbus.EnOperacion`, and the
  error that refuses the entrance rolls the link back. And `docs/01-requisitos.md:361` says
  the notices of licences are closed when none is pending; discharging the last machine that
  has one (`inventory/application/service.go:485`) publishes no event, so the notice
  stays until the next change of a licence.
* Not bugs, but worth knowing: the cascade of replacements ends even without
  `intentados`, since each eviction strictly improves the mark on a device; its result is not
  the best assignment, which `docs/01-requisitos.md:224` says as much; a displacing
  creation may deadlock with an unlocked CancelarOcurrencia or FinalizarVencidas, in its second
  round of locks, and relies on the retry.

## 6. What is not modelled

* HTTP parsing, the frontend, the texts and formats of mails and notices, SMTP, hashing,
  metrics, photos: I/O and libraries. A request is any value a screen may send, and what a
  route asks of a role is a guard.
* The audit log, save the rows a property speaks of: it is appended in the transaction of
  the operation and the logic never reads it back. The institutional settings, one row of
  terms, are constants. The queries that aggregate for screens and reports change
  nothing; what reporting writes (the sealed use of a year) is in CierreAnual.
* `PedirLiberacion`, which changes no reservation; the preferences of e-mail and the notices
  that only inform; the catalogue of installed programs.
* Migrations, the first admin of an installation and the orderly shutdown; the death of an
  instance is modelled where something is under way (Outbox, Cuentas, CuentasDeEquipo,
  Licencias).
* The closing hour of an institution that declared no school day.
* An SQL error inside one release of the sweep aborts the whole PostgreSQL transaction, so
  the sweep has no effect and the next one repeats it: that is the sweep not having run.
* Deadlocks inside the exclusion constraint, which PostgreSQL breaks and `Ejecutar` retries.

## 7. Plan

What the provers can reach of the properties the runs check is proved. Left to model are
`PedirLiberacion` with its mark once a day and the closing hour without a school day.
