-------------------------------- MODULE Epyc --------------------------------
(***************************************************************************)
(* AMD EPYC (src/variorum/AMD): sensors and caps of sockets and cores      *)
(* through the E-SMI library, which variorum_enter has brought up; core    *)
(* energies through the batch device where E-SMI has none.                 *)
(***************************************************************************)
EXTENDS DeviceSteps

esmi == <<"esmi", 0>>

\* set_amd_func_ptrs, a body and esmi_exit: without the library the platform has
\* one feature, the energies; the others say so and return 0.
WithESMI(feature, without) ==
  [feature EXCEPT !.plan = Open(esmi, << >>, without) \o Function(feature.plan) \o Close({esmi})]
IfESMI(feature) == WithESMI(feature, Complain \o Return(0))

\* A value that is 0 until read, whose failure ends the function.
ReadOr(v, what, d, no) == Reset(v) \o Get(v, <<what, d>>, esmi, no)

amd_cpu_epyc_get_power ==
  Reporting(EachSocket(LAMBDA i : ReadOr(Var("current_power"), "power", i, Fail)
                                    \o Show(Of("power", i), Var("current_power")))
              \o Return(0),
            Claims("power", Sockets))

amd_cpu_epyc_get_power_limits ==
  Reporting(EachSocket(LAMBDA i :
              Reset(Var("power")) \o Reset(Var("pcap_current")) \o Reset(Var("pcap_max"))
                \o Get(Var("power"), <<"power", i>>, esmi, Fail) \o Get(Var("pcap_current"), <<"cap", i>>, esmi, Fail)
                \o Get(Var("pcap_max"), <<"max", i>>, esmi, Fail)
                \o Show(Of("power", i), Var("power")) \o Show(Of("cap", i), Var("pcap_current"))
                \o Show(Of("max", i), Var("pcap_max")))
              \o Return(0),
            Claims("power", Sockets) \union Claims("cap", Sockets) \union Claims("max", Sockets))

\* The request is lowered to what a socket allows, for it and for those after it.
CapSocket(i) == Lower(<<"socket", i>>, esmi) \o Cap(<<"socket", i>>, esmi, Fail)

\* A socket gets half of the request for the node.
BestEffort == Divide(2)

amd_cpu_epyc_set_and_verify_best_effort_node_power_limit ==
  Capping(BestEffort
            \o EachSocket(LAMBDA i : CapSocket(i) \o Verify(<<"socket", i>>, esmi, Fail, Fail))
            \o Return(0),
          {<<"socket", i>> : i \in Sockets})

amd_cpu_epyc_set_socket_power_limit ==
  Capping(EachSocket(CapSocket) \o Return(0), {<<"socket", i>> : i \in Sockets})

\* print_energy_data of amd_power_features.c: the batch device is opened and the
\* cores are read in one batch, whose refusals are not noticed: a core keeps its
\* last value.  The unit of socket 1 is taken from past the end of two arrays of
\* one entry.
batchfd == <<"batchfd", 0>>
get_rapl_unit == Fork(<< >>, Crash)
CoreBits(i) == <<"core_bits", i>>
print_energy_data ==
  OpenFile(batchfd, Complain \o Return(-1))
    \o Each(0, NCORES - 1, LAMBDA i : Reset(CoreBits(i)) \o Get(CoreBits(i), <<"core energy", i>>, batchfd, << >>))
    \o get_rapl_unit
    \o Each(0, NCORES - 1, LAMBDA i : Show(Of("core energy", i), CoreBits(i)))
    \o Return(0)

\* esmi_init is called again, and may bring up what it could not before.  The long
\* form goes to the batch at once, the short one when that or a socket fails; a
\* core that fails is left out.
amd_cpu_epyc_print_energy(long_ver) ==
  LET energy == Var("energy")
      sockets(i) == Reset(energy) \o Get(energy, <<"socket energy", i>>, esmi, Complain \o print_energy_data)
                      \o Show(Of("socket energy", i), energy)
      cores(i) == Reset(energy) \o GetThen(energy, <<"core energy", i>>, esmi, Show(Of("core energy", i), energy),
                                            Complain)
      short == EachSocket(sockets) \o Each(0, NCORES - 1, cores) \o Return(0)
  IN Reporting(Open(esmi, IF long_ver THEN print_energy_data ELSE short, print_energy_data),
               Claims("core energy", Cores) \union IF long_ver THEN {} ELSE Claims("socket energy", Sockets))

amd_cpu_epyc_print_boostlimit ==
  Reporting(Each(0, NCORES - 1, LAMBDA i : ReadOr(Var("boostlimit"), "boost", i, Fail)
                                             \o Show(Of("boost", i), Var("boostlimit")))
              \o Return(0),
            Claims("boost", Cores))

\* The result is ignored, and one variable serves all cores.
amd_cpu_epyc_get_json_boostlimit ==
  LET cores_per_socket == NCORES \div NSOCKETS
  IN Reporting(Each(0, cores_per_socket * NSOCKETS - 1, LAMBDA current_core :
                 Get(Var("boostlimit"), <<"boost", current_core>>, esmi, << >>)
                   \o Show(Of("boost", current_core), Var("boostlimit")))
                 \o Return(0),
               Claims("boost", 0..(cores_per_socket * NSOCKETS - 1)))

\* Permissions end the loop; any other failure is reported and passed over.
amd_cpu_epyc_set_each_core_boostlimit ==
  Capping(Each(0, NCORES - 1, LAMBDA i : Cap(<<"core", i>>, esmi, Complain \o Fork(<< >>, Return(-1))))
            \o Return(0),
          {<<"core", i>> : i \in Cores})

amd_cpu_epyc_set_socket_boostlimit(socket) ==
  Capping(Cap(<<"boost", socket>>, esmi, Fail) \o Return(0), {<<"boost", socket>>})

amd_cpu_epyc_get_power_json ==
  Reporting(Reset(Var("node_power"))
              \o EachSocket(LAMBDA i : ReadOr(Var("current_power"), "power", i, Fail)
                   \o Show(Of("power", i), Var("current_power")) \o Add(Var("node_power"), Var("current_power")))
              \o Show(Sum("power", Sockets), Var("node_power")) \o Return(0),
            Claims("power", Sockets) \union {Sum("power", Sockets)})

amd_cpu_epyc_get_node_power_domain_info_json ==
  Reporting(ReadOr(Var("max_power"), "max", 0, Fail) \o Show(Of("max", 0), Var("max_power")) \o Return(0),
            Claims("max", {0}))

EpycFeatures ==
  [get_power |-> IfESMI(amd_cpu_epyc_get_power),
   get_power_limits |-> IfESMI(amd_cpu_epyc_get_power_limits),
   cap_best_effort_node_power_limit |-> IfESMI(amd_cpu_epyc_set_and_verify_best_effort_node_power_limit),
   cap_each_socket_power_limit |-> IfESMI(amd_cpu_epyc_set_socket_power_limit),
   print_energy |-> WithESMI(amd_cpu_epyc_print_energy(FALSE), << >>),
   print_verbose_energy |-> WithESMI(amd_cpu_epyc_print_energy(TRUE), << >>),
   print_boostlimit |-> IfESMI(amd_cpu_epyc_print_boostlimit),
   get_json_boostlimit |-> IfESMI(amd_cpu_epyc_get_json_boostlimit),
   cap_each_core_frequency_limit |-> IfESMI(amd_cpu_epyc_set_each_core_boostlimit),
   cap_socket_frequency_limit |-> IfESMI(amd_cpu_epyc_set_socket_boostlimit(0)),
   get_power_json |-> IfESMI(amd_cpu_epyc_get_power_json),
   get_node_power_domain_info_json |-> IfESMI(amd_cpu_epyc_get_node_power_domain_info_json)]
=============================================================================
