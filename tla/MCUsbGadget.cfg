\* Requests, resets, the monitor thread and one death of the service.
SPECIFICATION UsbFairSpec
CONSTANTS
  Requested <- MCRequested
  MaxRestarts = 1
INVARIANTS WholeGadget ReportIsTrue
PROPERTIES HostSensesSwap SuccessIsTrue RequestEnds
