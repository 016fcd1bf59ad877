\* One unattached volume, asked about, with --audit.
SPECIFICATION Spec
CONSTANTS
  Findings <- MCFindings
  Reports <- OneVolume
  Options <- Prompting
  Installed <- MCInstalled
  Uncleanable <- MCUncleanable
  Cleanable <- MCCleanable
  ReadsAWS = {"incomplete-multipart-upload"}
  Planner <- MCPlanner
  Operation <- MCOperation
  Resource <- MCResource
  Region = {"us-east-1", "eu-west-1"}
  Home = "us-east-1"
  GlobalRegion = "global"
  NoRegion <- OwnRegion
  Backups <- MCBackups
  Batch = {"ec2.delete_vpc_endpoints"}
  Uploads <- MCUploads
  Lives <- MCLives
  UploadsOf <- MCUploadsOf
INVARIANT AuditNamesEveryCall
CHECK_DEADLOCK FALSE
