\* Every failure, and attributes and interrupts in use all the while.  After a
\* mishandled one the kernel may stop at a release.
SPECIFICATION Spec
CONSTANTS
  Drivers <- MCDrivers
  Failures <- AllFailures
  Mishandled <- MCMishandled
  Called = {"cnccontroller", "testadder"}
INVARIANTS
  NothingLeaked
  ReleasesOnlyHeld
  NothingDangles
  CallersAreSafe
CHECK_DEADLOCK FALSE
