------------------------------- MODULE Inventario -------------------------------
(* The carts and the machines of internal/inventory: their cards, what takes  *)
(* them out of circulation and brings them back, and the incidents reported   *)
(* of them.  Every operation holds Coordinar(exclusivo) and commits as one    *)
(* transaction; what the reservations say of a machine comes through          *)
(* ValidadorReservas.                                                         *)
EXTENDS Naturals, FiniteSets

CONSTANTS
    Carros,        \* identifiers of carro
    NombresCarro,  \* names of carts, canonical
    Equipos,       \* identifiers of equipo
    Zocalos,       \* values of identificador
    Nombres,       \* names of loose machines, canonical
    Series,        \* serial numbers, canonical
    Incidencias,   \* identifiers of incidencia
    MaxCambiosI,   \* bound of the changes people make
    Vacio          \* NULL

VARIABLES
    carros,
    equipos,
    conReservas,   \* machines with a reservation that is still to come
    prestados,     \* machines handed over and not returned
    incidencias,
    cambiosI

varsI == <<carros, equipos, conReservas, prestados, incidencias, cambiosI>>

EstadosEquipo == {"DISPONIBLE", "EN_MANTENIMIENTO", "FUERA_DE_SERVICIO"}
EstadosIncidencia == {"ABIERTA", "EN_REPARACION", "ENVIADA_A_SOPORTE", "RESUELTA"}

Carro == [nombre : NombresCarro, baja : BOOLEAN]
Equipo == [carro : Carros \cup {Vacio}, identificador : Zocalos \cup {Vacio},
           nombre : Nombres \cup {Vacio}, serie : Series \cup {Vacio},
           estado : EstadosEquipo, baja : BOOLEAN, reservable : BOOLEAN]
Incidencia == [equipo : Equipos, estado : EstadosIncidencia, enviada : BOOLEAN]

ASSUME InventarioAssumption ==
    /\ MaxCambiosI \in Nat
    /\ Vacio \notin Carros /\ Vacio \notin Series
    /\ Vacio \notin Carro /\ Vacio \notin Equipo /\ Vacio \notin Incidencia

TypeOKI ==
    /\ carros \in [Carros -> Carro \cup {Vacio}]
    /\ equipos \in [Equipos -> Equipo \cup {Vacio}]
    /\ conReservas \subseteq Equipos /\ prestados \subseteq Equipos
    /\ incidencias \in [Incidencias -> Incidencia \cup {Vacio}]
    /\ cambiosI \in 0 .. MaxCambiosI

InitI ==
    /\ carros = [c \in Carros |-> Vacio] /\ equipos = [e \in Equipos |-> Vacio]
    /\ conReservas = {} /\ prestados = {}
    /\ incidencias = [i \in Incidencias |-> Vacio]
    /\ cambiosI = 0

-----------------------------------------------------------------------------
(* What the tables accept                                                    *)

CarrosCargados == {c \in Carros : carros[c] # Vacio}
EquiposCargados == {e \in Equipos : equipos[e] # Vacio}

EnCirculacion(e) == e \in EquiposCargados /\ ~equipos[e].baja

\* ux_carro_nombre looks at the carts that were not retired.
NombreLibre(f, c) ==
    \A o \in Carros \ {c} :
      (f[o] # Vacio /\ ~f[o].baja /\ ~f[c].baja) => f[o].nombre # f[c].nombre

\* chk_equipo_identificable
Identificable(r) ==
    IF r.carro = Vacio THEN r.nombre # Vacio ELSE r.identificador # Vacio

\* Mutant: the number inside the cart has no index.
SinElZocalo(f, e) ==
    \A o \in Equipos \ {e} : (f[o] # Vacio /\ ~f[o].baja /\ ~f[e].baja) =>
      /\ f[o].serie = Vacio \/ f[o].serie # f[e].serie
      /\ (f[o].carro = Vacio /\ f[e].carro = Vacio) => f[o].nombre # f[e].nombre

\* The three partial unique indexes of equipo.
SinRepetir(f, e) ==
    \A o \in Equipos \ {e} : (f[o] # Vacio /\ ~f[o].baja /\ ~f[e].baja) =>
      /\ f[o].serie = Vacio \/ f[o].serie # f[e].serie
      /\ f[o].carro = Vacio \/ <<f[o].carro, f[o].identificador>> # <<f[e].carro, f[e].identificador>>
      /\ (f[o].carro = Vacio /\ f[e].carro = Vacio) => f[o].nombre # f[e].nombre

CambiaI == cambiosI < MaxCambiosI /\ cambiosI' = cambiosI + 1

GuardarCarro(c, r) ==
    /\ carros' = [carros EXCEPT ![c] = r] /\ NombreLibre(carros', c)
    /\ UNCHANGED <<equipos, conReservas, prestados, incidencias>>

GuardarEquipo(e, r) ==
    /\ equipos' = [equipos EXCEPT ![e] = r]
    /\ Identificable(r) /\ SinRepetir(equipos', e)
    /\ UNCHANGED <<carros, prestados, incidencias>>

-----------------------------------------------------------------------------
(* Carts                                                                     *)

CrearCarro(c, nombre) ==
    /\ CambiaI /\ c \notin CarrosCargados
    /\ GuardarCarro(c, [nombre |-> nombre, baja |-> FALSE])

EditarCarro(c, nombre) ==
    /\ CambiaI /\ c \in CarrosCargados
    /\ GuardarCarro(c, [carros[c] EXCEPT !.nombre = nombre])

ListarEquiposPorCarro(c) == {e \in EquiposCargados : equipos[e].carro = c}

\* Only an empty cart is retired: whatever is inside was retired before.
DarDeBajaCarro(c) ==
    /\ CambiaI /\ c \in CarrosCargados /\ ~carros[c].baja
    /\ \A e \in ListarEquiposPorCarro(c) : equipos[e].baja
    /\ GuardarCarro(c, [carros[c] EXCEPT !.baja = TRUE])

ReactivarCarro(c) ==
    /\ CambiaI /\ c \in CarrosCargados /\ carros[c].baja
    /\ GuardarCarro(c, [carros[c] EXCEPT !.baja = FALSE])

-----------------------------------------------------------------------------
(* Machines                                                                  *)

VerificarCarroDisponible(c) == c \in CarrosCargados /\ ~carros[c].baja

NuevoEquipoDeCarro(c, zocalo, serie) ==
    [carro |-> c, identificador |-> zocalo, nombre |-> Vacio, serie |-> serie,
     estado |-> "DISPONIBLE", baja |-> FALSE, reservable |-> TRUE]

CrearEquipoDeCarro(e, c, zocalo, serie) ==
    /\ CambiaI /\ e \notin EquiposCargados
    /\ VerificarCarroDisponible(c)
    /\ GuardarEquipo(e, NuevoEquipoDeCarro(c, zocalo, serie))
    /\ UNCHANGED conReservas

NuevoEquipoSuelto(nombre, serie, reservable) ==
    [carro |-> Vacio, identificador |-> Vacio, nombre |-> nombre, serie |-> serie,
     estado |-> "DISPONIBLE", baja |-> FALSE, reservable |-> reservable]

CrearEquipo(e, nombre, serie, reservable) ==
    /\ CambiaI /\ e \notin EquiposCargados
    /\ GuardarEquipo(e, NuevoEquipoSuelto(nombre, serie, reservable))
    /\ UNCHANGED conReservas

\* Whether it is in circulation is not asked.  The destination is checked
\* before anything is touched.
MoverACarro(e, c) ==
    /\ CambiaI /\ e \in EquiposCargados
    /\ VerificarCarroDisponible(c)
    /\ GuardarEquipo(e, [equipos[e] EXCEPT !.carro = c])
    /\ UNCHANGED conReservas

\* Emptying the serial number is for what is not in a cart, and emptying the
\* name for what is.
EditarEquipo(e, nombre, serie, reservable) ==
    /\ CambiaI /\ e \in EquiposCargados
    /\ nombre = Vacio => equipos[e].carro # Vacio
    /\ serie = Vacio => equipos[e].carro = Vacio
    /\ GuardarEquipo(e, [equipos[e] EXCEPT
         !.nombre = nombre, !.serie = serie, !.reservable = reservable])
    /\ UNCHANGED conReservas

\* Changing the number painted on a machine asks for the one the Admin was looking at.
RenumerarEquipo(e, actual, numero) ==
    /\ CambiaI /\ EnCirculacion(e)
    /\ equipos[e].carro # Vacio /\ equipos[e].identificador = actual
    /\ GuardarEquipo(e, [equipos[e] EXCEPT !.identificador = numero])
    /\ UNCHANGED conReservas

PuedeTransicionarA(estado, nuevo) == estado # nuevo

DisparaCascada(estado) == estado \in {"EN_MANTENIMIENTO", "FUERA_DE_SERVICIO"}

\* The repeated operation is an error, unless a cascade is still to be done.
CascadaPendiente(e) == e \in conReservas

CancelarReservasFuturasDeEquipo(e) == conReservas' = conReservas \ {e}

CambiarEstadoEquipo(e, nuevo) ==
    /\ CambiaI /\ e \in EquiposCargados
    /\ PuedeTransicionarA(equipos[e].estado, nuevo) \/ (DisparaCascada(nuevo) /\ CascadaPendiente(e))
    /\ GuardarEquipo(e, [equipos[e] EXCEPT !.estado = nuevo])
    /\ IF DisparaCascada(nuevo) THEN CancelarReservasFuturasDeEquipo(e) ELSE UNCHANGED conReservas

DarDeBajaEquipo(e) ==
    /\ CambiaI /\ e \in EquiposCargados
    /\ ~equipos[e].baja \/ CascadaPendiente(e)
    /\ ~equipos[e].baja => e \notin prestados
    /\ GuardarEquipo(e, [equipos[e] EXCEPT !.baja = TRUE])
    /\ CancelarReservasFuturasDeEquipo(e)

ReactivarEquipo(e) ==
    /\ CambiaI /\ e \in EquiposCargados /\ equipos[e].baja
    /\ equipos[e].carro # Vacio => VerificarCarroDisponible(equipos[e].carro)
    /\ GuardarEquipo(e, [equipos[e] EXCEPT !.baja = FALSE])
    /\ UNCHANGED conReservas

\* What internal/reservation does, as far as the machines look at it.
Reservar(e) ==
    /\ CambiaI /\ EnCirculacion(e) /\ e \notin conReservas
    /\ equipos[e].estado = "DISPONIBLE" /\ equipos[e].reservable
    /\ conReservas' = conReservas \cup {e}
    /\ UNCHANGED <<carros, equipos, prestados, incidencias>>

EntregarODevolver(e) ==
    /\ CambiaI
    /\ \/ /\ EnCirculacion(e) /\ equipos[e].estado = "DISPONIBLE" /\ e \notin prestados
          /\ prestados' = prestados \cup {e}
       \/ e \in prestados /\ prestados' = prestados \ {e}
    /\ UNCHANGED <<carros, equipos, conReservas, incidencias>>

-----------------------------------------------------------------------------
(* Incidents                                                                 *)

CrearIncidencia(i, e) ==
    /\ CambiaI /\ incidencias[i] = Vacio /\ e \in EquiposCargados
    /\ incidencias' = [incidencias EXCEPT ![i] =
         [equipo |-> e, estado |-> "ABIERTA", enviada |-> FALSE]]
    /\ UNCHANGED <<carros, equipos, conReservas, prestados>>

\* Sending it away wins over the state that came with it.
EditarIncidencia(i, enviar, estado) ==
    /\ CambiaI /\ incidencias[i] # Vacio
    /\ incidencias' = [incidencias EXCEPT
         ![i].estado = IF enviar THEN "ENVIADA_A_SOPORTE" ELSE estado,
         ![i].enviada = enviar \/ @]
    /\ UNCHANGED <<carros, equipos, conReservas, prestados>>

PeticionesDeCarros == \E c \in Carros, n \in NombresCarro : CrearCarro(c, n)
EdicionesDeCarros == \E c \in Carros, n \in NombresCarro : EditarCarro(c, n)
RetirosDeCarros == \E c \in Carros : DarDeBajaCarro(c) \/ ReactivarCarro(c)
AltasEnCarro ==
    \E e \in Equipos, c \in Carros, z \in Zocalos, s \in Series : CrearEquipoDeCarro(e, c, z, s)
AltasSueltas ==
    \E e \in Equipos, n \in Nombres, s \in Series \cup {Vacio}, b \in BOOLEAN : CrearEquipo(e, n, s, b)
EdicionesDeEquipos ==
    \E e \in Equipos :
      \/ \E c \in Carros : MoverACarro(e, c)
      \/ \E z, n \in Zocalos : RenumerarEquipo(e, z, n)
      \/ \E n \in Nombres \cup {Vacio}, s \in Series \cup {Vacio}, b \in BOOLEAN :
           EditarEquipo(e, n, s, b)
CambiosDeEstado == \E e \in Equipos, x \in EstadosEquipo : CambiarEstadoEquipo(e, x)
BajasDeEquipos == \E e \in Equipos : DarDeBajaEquipo(e)
Reactivaciones == \E e \in Equipos : ReactivarEquipo(e)
Actividad == \E e \in Equipos : Reservar(e) \/ EntregarODevolver(e)
ReportesDeFallas == \E i \in Incidencias, e \in Equipos : CrearIncidencia(i, e)
EdicionesDeIncidencias ==
    \E i \in Incidencias, enviar \in BOOLEAN, x \in EstadosIncidencia : EditarIncidencia(i, enviar, x)

NextI ==
    \/ PeticionesDeCarros \/ EdicionesDeCarros \/ RetirosDeCarros
    \/ AltasEnCarro \/ AltasSueltas \/ EdicionesDeEquipos
    \/ CambiosDeEstado \/ BajasDeEquipos \/ Reactivaciones \/ Actividad
    \/ ReportesDeFallas \/ EdicionesDeIncidencias

SpecI == InitI /\ [][NextI]_varsI

-----------------------------------------------------------------------------
(* Properties                                                                *)

\* Equipo.Etiqueta: its name, if it has one, or else its number ("PC 3"). A name is taken
\* not to read like a number.
Etiqueta(e) ==
    IF equipos[e].nombre # Vacio THEN [nombre |-> equipos[e].nombre, numero |-> Vacio]
                                 ELSE [nombre |-> Vacio, numero |-> equipos[e].identificador]

DelCarro(e) == IF equipos[e].carro = Vacio THEN Vacio ELSE carros[equipos[e].carro].nombre

\* etiquetaConCarroSQL: what a notice says, where no other column tells the cart.
EtiquetaConCarro(e) ==
    [etiqueta |-> Etiqueta(e), carro |-> IF equipos[e].nombre # Vacio THEN Vacio ELSE DelCarro(e)]

\* A machine of a cart that somebody gave a name to.
ConNombrePropio(e) == equipos[e].carro # Vacio /\ equipos[e].nombre # Vacio

\* Two machines in circulation are never taken for one another, whatever was retired,
\* renamed, moved and brought back before: "PC 7 del Carro 1" is one machine, named or not,
\* and two that a notice calls the same are told apart but for a name given to a machine of
\* a cart, which no index looks at (see DeCarroPorSuNumero).
EtiquetaUnica ==
    \A e, o \in Equipos :
      e # o /\ EnCirculacion(e) /\ EnCirculacion(o) =>
        /\ equipos[e].carro # Vacio /\ equipos[o].carro # Vacio
           => <<DelCarro(e), equipos[e].identificador>> # <<DelCarro(o), equipos[o].identificador>>
        /\ EtiquetaConCarro(e) = EtiquetaConCarro(o) => ConNombrePropio(e) \/ ConNombrePropio(o)

\* What the comments of Etiqueta and of the columns of equipo say, and RF-03.17: a machine
\* of a cart is called by its number, whoever edited it.
DeCarroPorSuNumero ==
    \A e \in Equipos : (EnCirculacion(e) /\ equipos[e].carro # Vacio) =>
        Etiqueta(e) = [nombre |-> Vacio, numero |-> equipos[e].identificador]

\* No machine in circulation is inside a cart that no list shows.
NingunEquipoInvisible ==
    \A e \in Equipos :
      (EnCirculacion(e) /\ equipos[e].carro # Vacio) => ~carros[equipos[e].carro].baja

\* A machine of a cart has its serial number, by whatever path it got there.
DeCarroConSerie ==
    \A e \in EquiposCargados : equipos[e].carro # Vacio => equipos[e].serie # Vacio
=============================================================================
