\* Every way a clean run can go, with the shipped cleaners.
SPECIFICATION FairSpec
CONSTANTS
  Findings <- MCFindings
  Reports <- MCReports
  Options <- CommandLines
  Installed <- MCInstalled
  Uncleanable <- MCUncleanable
  Cleanable <- MCCleanable
  ReadsAWS = {"incomplete-multipart-upload"}
  Planner <- MCPlanner
  Operation <- MCOperation
  Resource <- MCResource
  Region = {"us-east-1", "eu-west-1"}
  Home = "us-east-1"
  GlobalRegion = "global"
  NoRegion <- OwnRegion
  Backups <- MCBackups
  Batch = {"ec2.delete_vpc_endpoints"}
  Uploads <- MCUploads
  Lives <- MCLives
  UploadsOf <- MCUploadsOf
INVARIANTS
  TypeOK
  OnlyApprovedCalls
  StepsInOrder
  OutcomesAreTrue
  AuditIsTrue
  ExitTellsFailure
  BackedUpFirst
  CallsGoHome
PROPERTIES
  OutcomesSettleOnce
  
\* The command ends.
CHECK_DEADLOCK FALSE
