-------------------------- MODULE SystemCollector --------------------------
(***************************************************************************)
(* SystemCollector (system_collector.py): what it remembers from one       *)
(* collection to the next.  The figures it reads and passes on are left    *)
(* out.                                                                    *)
(***************************************************************************)
EXTENDS Integers, Sequences, FiniteSetsExt

CONSTANTS
  Ttl,        \* how long IP addresses are cached; 30 seconds in the code
  MaxClock,   \* bound on the wall clock
  Dirs,       \* the directories of /sys/class/hwmon, numbered in psutil's order
  Preferred,  \* the sensor names looked for, best first; others come after them
  Names,      \* the names of sensors
  NoSensor,
  Unavailable \* the temperature -1.0, a path that is None

ASSUME ClockAssumption == Ttl \in Nat /\ MaxClock \in Nat
ASSUME DirsAssumption == Dirs \subseteq Nat /\ IsFiniteSet(Dirs) /\ Unavailable \notin Dirs

VARIABLES
  now,      \* time.time()
  hwmon,    \* the sensors of the host: directory -> name
  cached,   \* _ip_addresses is not None
  cachedAt, \* _ip_cache_time
  age,      \* how long ago the addresses were read, up to Ttl + 1 (history)
  setBack,  \* the clock was set back since then (history)
  probed,   \* _temp_probed
  path      \* _temp_sysfs_path, by its directory

systemHost == <<now, hwmon>>
addressVars == <<cached, cachedAt, age, setBack>>
temperatureVars == <<probed, path>>
systemVars == <<systemHost, addressVars, temperatureVars>>

Sensors == {d \in Dirs : hwmon[d] # NoSensor}

SystemTypeOK ==
  /\ now \in 1 .. MaxClock /\ cachedAt \in 0 .. MaxClock
  /\ hwmon \in [Dirs -> Names \cup {NoSensor}]
  /\ age \in 0 .. Ttl + 1
  /\ cached \in BOOLEAN /\ setBack \in BOOLEAN /\ probed \in BOOLEAN
  /\ path \in Dirs \cup {Unavailable}

SystemInit ==
  /\ now \in 1 .. MaxClock
  /\ hwmon \in [Dirs -> Names \cup {NoSensor}]
  /\ cached = FALSE /\ cachedAt = 0 /\ age = 0 /\ setBack = FALSE
  /\ probed = FALSE /\ path = Unavailable

\* The collector goes with its process.
SystemEnd ==
  /\ cached' = FALSE /\ cachedAt' = 0 /\ age' = 0 /\ setBack' = FALSE
  /\ probed' = FALSE /\ path' = Unavailable
  /\ UNCHANGED <<now, hwmon>>

-----------------------------------------------------------------------------
\* The host.

Tick ==
  /\ now < MaxClock
  /\ now' = now + 1
  /\ age' = IF cached THEN Min({age + 1, Ttl + 1}) ELSE 0
  /\ UNCHANGED <<hwmon, cached, cachedAt, setBack, temperatureVars>>

SetClock(t) ==
  /\ now' = t
  /\ setBack' = (setBack \/ (cached /\ t < now))
  /\ UNCHANGED <<hwmon, cached, cachedAt, age, temperatureVars>>

\* Directories are numbered as drivers are loaded.
LoadDrivers(names) ==
  /\ hwmon' = names
  /\ UNCHANGED <<now, addressVars, temperatureVars>>

-----------------------------------------------------------------------------
\* get_ip_addresses.

\* Variant: the time is noted whenever the addresses are asked for.
NoteTimeAlways(expired) == cachedAt' = now

\* Variant: the time of expiry is noted.
NoteExpiry(expired) == cachedAt' = IF expired THEN now + Ttl ELSE cachedAt

NoteTime(expired) == cachedAt' = IF expired THEN now ELSE cachedAt

GetIpAddresses ==
  LET expired == ~cached \/ now - cachedAt > Ttl
  IN  /\ cached' = TRUE
      /\ NoteTime(expired)
      /\ age' = IF expired THEN 0 ELSE age
      /\ setBack' = (~expired /\ setBack)

-----------------------------------------------------------------------------
\* get_cpu_temperature.

Rank(name) ==
  IF \E i \in DOMAIN Preferred : Preferred[i] = name
  THEN CHOOSE i \in DOMAIN Preferred : Preferred[i] = name
  ELSE Len(Preferred) + 1

\* The sensor for the first reading: the first one of the best name.
Best == CHOOSE d \in Sensors : \A e \in Sensors :
          \/ Rank(hwmon[d]) < Rank(hwmon[e])
          \/ Rank(hwmon[d]) = Rank(hwmon[e]) /\ d <= e

\* _find_temp_sysfs_path takes one of these, in the order of glob and not in psutil's, or none:
\* temp1_input may be missing and the files may be unreadable.
PathsOf(name) == {d \in Sensors : hwmon[d] = name}

\* The first call probes; later ones read the file of the path and remember nothing.
GetCpuTemperature ==
  /\ probed' = TRUE
  /\ IF probed \/ Sensors = {} THEN UNCHANGED path
     ELSE path' \in PathsOf(hwmon[Best]) \cup {Unavailable}

CollectAll == GetCpuTemperature /\ GetIpAddresses /\ UNCHANGED systemHost
=============================================================================
