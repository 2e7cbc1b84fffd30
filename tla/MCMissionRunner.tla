--------------------------- MODULE MCMissionRunner ---------------------------
EXTENDS MissionRunner

\* Three sectors, one of two units, in two waves.
PortUnits == <<2, 1, 1>>
PortWaves == <<{1, 2}, {3}>>

Plain == [parallelism |-> 0, max_dispatches |-> 0, wall_cap |-> FALSE,
          max_waves |-> 0, max_attempts |-> 1, run_gates |-> FALSE,
          run_sweeps |-> TRUE, sweep_batch_sectors |-> 2,
          max_sweep_dispatches |-> 0, run_documentation |-> FALSE,
          dry_run |-> FALSE, seats |-> {"porter"}, auditors |-> Axis]

\* The manifest's two workers, gates, audits and remediation.
Whole == [Plain EXCEPT !.max_attempts = 2, !.run_gates = TRUE,
                       !.seats = {"porter", "qa"}]

\* With it: a dispatch cap on more workers than there may be; a wall-clock cap
\* and a cap on the audits, on one worker; a dry run; a team without a porter.
PortConfigs ==
    {Whole,
     [Plain EXCEPT !.max_dispatches = 2, !.parallelism = MaxParallelism + 1,
                   !.max_attempts = 0, !.sweep_batch_sectors = 0],
     [Plain EXCEPT !.wall_cap = TRUE, !.parallelism = 1,
                   !.max_sweep_dispatches = 1],
     [Plain EXCEPT !.dry_run = TRUE, !.max_waves = 1],
     [Plain EXCEPT !.seats = {}, !.auditors = {}]}
PortResumes == {Whole}

\* Two waves, and a caller who resumes with a cap of one wave per run.
CapUnits == <<1, 1>>
CapWaves == <<{1}, {2}>>
CapConfigs == {[Plain EXCEPT !.max_waves = 1, !.run_sweeps = FALSE]}

\* Two sectors in one wave, on two workers.
PairWaves == <<{1, 2}>>
PairConfigs == {[Plain EXCEPT !.run_sweeps = FALSE]}
=============================================================================
