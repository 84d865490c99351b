------------------------------- MODULE Power9 -------------------------------
(***************************************************************************)
(* IBM Power9 (src/variorum/IBM/Power9.c): sensors in one file of the OCC, *)
(* a block for each socket; caps in files of OPAL, applied when the        *)
(* firmware comes to them.  The energies are in P9Energy.                  *)
(***************************************************************************)
EXTENDS DeviceSteps

occ == <<"occ_inband_sensors", 0>>
OpalFile(f) == <<f, 0>>

\* The block of each socket is read whole, its sensors are given out, and the
\* file is closed; after a short read it is not.
EachBlock(Sensors(_)) ==
  OpenFile(occ, Fail)
    \o EachSocket(LAMBDA iter : GetThen(Var("buf"), <<"occ", iter>>, occ, Sensors(iter), Fail))
    \o Close({occ}) \o Return(0)

\* Whatever is printed or stored of a block is read from the buffer.
ShowBlock(iter) == Show(Of("occ", iter), Var("buf"))
print_power_sensors(chipid) == ShowBlock(chipid)
print_all_sensors(chipid) == ShowBlock(chipid)
json_get_thermal_sensors(chipid) == ShowBlock(chipid)
json_get_frequency_sensors(chipid) == ShowBlock(chipid)
BlockClaims == Claims("occ", Sockets)

ibm_cpu_p9_get_power == Reporting(EachBlock(print_power_sensors), BlockClaims)
ibm_cpu_p9_monitoring == Reporting(EachBlock(print_all_sensors), BlockClaims)
ibm_cpu_p9_get_node_thermal_json == Reporting(EachBlock(json_get_thermal_sensors), BlockClaims)
ibm_cpu_p9_get_node_frequency_json == Reporting(EachBlock(json_get_frequency_sensors), BlockClaims)

\* The power of the node is a sensor in the block of socket 0.
json_get_power_sensors(chipid) ==
  (IF chipid = 0 THEN Copy(Var("node"), Var("buf")) ELSE << >>) \o ShowBlock(chipid)
ibm_cpu_p9_get_power_json == Reporting(EachBlock(json_get_power_sensors), BlockClaims)

\* Fault: the file is not closed.
KeptOpen(file) == OpenFile(file, Fail) \o Reset(file) \o Get(file, file, file, << >>)

\* A file that is opened and does not hold a number leaves a 0.
ReadOpal(file) == OpenFile(file, Fail) \o Reset(file) \o Get(file, file, file, << >>) \o Close({file})
limits ==
  <<OpalFile("powercap-current"), OpalFile("powercap-max"), OpalFile("powercap-min"), OpalFile("cpu_to_gpu_0"),
    OpalFile("cpu_to_gpu_8")>>
ibm_cpu_p9_get_power_limits ==
  Reporting(Each(1, 5, LAMBDA k : ReadOpal(limits[k])) \o Each(1, 5, LAMBDA k : Show({limits[k]}, limits[k]))
              \o Return(0),
            {{limits[k]} : k \in 1..5})

\* Fault: the cap is taken for set without a look.
Unverified(dev) == << >>

\* The file is opened once more after 100 ms; what cannot be read differs.
VerifyCap(dev) ==
  OpenFile(dev, Fail) \o Verify(dev, dev, Close({dev}) \o Fail, Close({dev}) \o Fail) \o Close({dev})

\* Whether the write succeeds is not looked at.
ibm_cpu_p9_cap_and_verify_node_power_limit ==
  LET dev == OpalFile("powercap-current")
  IN Capping(OpenFile(dev, Fail) \o Cap(dev, dev, << >>) \o Close({dev}) \o VerifyCap(dev) \o Return(0), {dev})

\* Both files are opened before either is tested: one may stay open.
ibm_cpu_p9_cap_gpu_power_ratio ==
  LET fp1 == OpalFile("cpu_to_gpu_0")
      fp2 == OpalFile("cpu_to_gpu_8")
      opened == Cap(fp1, fp1, << >>) \o Cap(fp2, fp2, << >>) \o Close({fp1, fp2}) \o Return(0)
  IN Capping(OpenFile(fp1, OpenFile(fp2, << >>) \o Fail) \o OpenFile(fp2, Fail) \o opened, {fp1, fp2})

\* Nothing is set, and 0 is returned.
ibm_cpu_p9_cap_socket_power_limit == Capping(Fork(<< >>, Complain) \o Return(0), {})

P9Features ==
  [get_power |-> ibm_cpu_p9_get_power,
   monitoring |-> ibm_cpu_p9_monitoring,
   get_node_thermal_json |-> ibm_cpu_p9_get_node_thermal_json,
   get_node_frequency_json |-> ibm_cpu_p9_get_node_frequency_json,
   get_power_json |-> ibm_cpu_p9_get_power_json,
   get_power_limits |-> ibm_cpu_p9_get_power_limits,
   cap_and_verify_node_power_limit |-> ibm_cpu_p9_cap_and_verify_node_power_limit,
   cap_gpu_power_ratio |-> ibm_cpu_p9_cap_gpu_power_ratio,
   cap_socket_power_limit |-> ibm_cpu_p9_cap_socket_power_limit]
=============================================================================
